---- MODULE Spec2Model ----
(***************************************************************************)
(* Model of the Skeld map / collision-mask generator of Emergency-Meeting: *)
(* the rectangle rasterizers (build-collision-mask, buildLookups), the     *)
(* collision-mask emitter and its runtime reader, the distance field and   *)
(* the morphological mask refiner of the pixel-analysis variant.           *)
(***************************************************************************)
EXTENDS Integers, Sequences, FiniteSets, TLC

VARIABLES
  ROOMS,          \* room rectangles of the geometry (ROOM_REGION_RECTS)
  CORRIDORS,      \* corridor rectangles of the geometry (CORRIDOR_RECTS)
  pc,             \* position of the generation run
  rectI,          \* index of the next rectangle of the mask rasterizer loop
  mask,           \* Uint8Array(MASK_W * MASK_H) of the mask script
  maskPng,        \* RGBA bytes of collision-mask.png
  overlayVariant, \* which build-collision-mask variant wrote space-overlay.png
  overlayPng,     \* RGBA bytes of space-overlay.png
  collisionData,  \* runtime: collisionData.current (Null until img.onload)
  walkMap,        \* full-resolution walkability bitmap
  roomIdx,        \* full-resolution room index map
  distW, distH,   \* canvas of the distance-field run
  distWalk,       \* walkability bitmap the distance field is built from
  distField,      \* Uint8Array(W * H) distance field
  distY,          \* row the running pass of buildDistField is at
  morphW, morphH, \* mask grid of the pixel-analysis run
  rawMask,        \* downscaled content bitmap
  erodeR, dilateR,\* morphological radii
  minComponentSize, \* small-component threshold (MIN_COMPONENT_SIZE)
  overlayRects,   \* declared overlay rectangles (ALL_OVERLAY)
  opened, cleaned,\* refiner stages
  finalMask,      \* refined bitmap OR'd with the overlay rectangles
  reapplied,      \* the refiner applied to its own output
  compVariant,    \* which sprite compositor runs: "layered" or "rooms"
  LAYER_STACK,    \* stage -> the layers declared for it
  existingFiles,  \* the source files present under MAPS_DIR
  includeOptional,\* ids named by --include-optional
  stageIndex,     \* index of the running stage (STAGE_ORDER.forEach)
  layerI,         \* index of the next layer of the running stage
  canvas,         \* the canvas the layers are composited onto
  renderedLayers, \* layers composited so far, with their placed rectangle
  skeldMapPng,    \* skeld-map.png as written (Null before)
  blendDst, blendSrc, blendOx, blendOy, \* dst, src, ox, oy of a call of compositeOver
  nodeCount,      \* wiring components: number of wires (NODE_COUNT, attributes.length)
  connections,    \* wiring components: connections[left] = right node or -1
  selectedLeft,   \* FixWiringMinigame: the selected left node (-1 for null)
  rightColors,    \* FixWiringMinigame: the shuffled colours of the right nodes
  onCompleteInvoked, \* FixWiringMinigame: the last render's effect called onComplete
  dragData,       \* ElectricalPanelContent: the drag's payload under DRAG_DATA_KEY, as characters
  keysRef,        \* SkeldMapTest: the keys held down
  posRef          \* SkeldMapTest: the player's position

rasterVars == <<ROOMS, CORRIDORS, rectI, mask, maskPng, overlayVariant, overlayPng,
                collisionData, walkMap, roomIdx>>
distVars == <<distW, distH, distWalk, distField, distY>>
morphVars == <<morphW, morphH, rawMask, erodeR, dilateR, minComponentSize, overlayRects,
               opened, cleaned, finalMask, reapplied>>
compVars == <<compVariant, LAYER_STACK, existingFiles, includeOptional, stageIndex, layerI,
              canvas, renderedLayers, skeldMapPng>>
blendVars == <<blendDst, blendSrc, blendOx, blendOy>>
uiVars == <<nodeCount, connections, selectedLeft, rightColors, onCompleteInvoked, dragData>>
gameVars == <<keysRef, posRef>>
vars == <<pc, rasterVars, distVars, morphVars, compVars, blendVars, uiVars, gameVars>>

Null == <<>>

Max(a, b) == IF a >= b THEN a ELSE b
Min(a, b) == IF a <= b THEN a ELSE b
\* Math.floor(a / b) and Math.ceil(a / b) for integers a and b > 0
FloorDiv(a, b) == a \div b
CeilDiv(a, b) == -((-a) \div b)

(***************************************************************************)
(* Shared geometry (shared/skeldGeometry.ts).  The canvas is scaled down;  *)
(* the downscale factor is the program's.                                  *)
(***************************************************************************)
MAP_W == 12
MAP_H == 8
MASK_SCALE == 4
MASK_W == CeilDiv(MAP_W, MASK_SCALE)
MASK_H == CeilDiv(MAP_H, MASK_SCALE)

Rect(x, y, w, h) == [x |-> x, y |-> y, w |-> w, h |-> h]

\* Horizontal and vertical extents <<origin, size>> the geometry is drawn from:
\* negative origin, aligned, unaligned, zero size at an unaligned origin,
\* reaching beyond the canvas, wholly outside the canvas.
RectXs == { <<-2, 3>>, <<0, 4>>, <<3, 3>>, <<5, 0>>, <<9, 5>>, <<MAP_W + 4, 2>> }
RectYs == { <<-1, 3>>, <<0, 4>>, <<2, 3>>, <<1, 0>>, <<6, 4>> }
Rects == { Rect(a[1], b[1], a[2], b[2]) : a \in RectXs, b \in RectYs }
CorridorRects == { Rect(a[1], b[1], a[2], b[2]) :
                     a \in { <<3, 3>>, <<9, 5>> }, b \in { <<-1, 3>>, <<2, 3>>, <<6, 4>> } }

RoomLists == { <<r>> : r \in Rects } \cup { <<r, q>> : r \in Rects, q \in Rects }
CorridorLists == { <<>> } \cup { <<c>> : c \in CorridorRects }

ALL_WALKABLE == ROOMS \o CORRIDORS

(***************************************************************************)
(* Mask rasterizer of build-collision-mask (rectangle variants).           *)
(***************************************************************************)
ZeroMask(n) == [k \in 0..(n - 1) |-> 0]

\* MaskWritesAt with the end of the footprint rounded down instead of up
MaskWritesAtFloorEnd(rect, scale, mw, mh) ==
  LET sx == Max(0, FloorDiv(rect.x, scale))
      sy == Max(0, FloorDiv(rect.y, scale))
      ex == Min(mw, FloorDiv(rect.x + rect.w, scale))
      ey == Min(mh, FloorDiv(rect.y + rect.h, scale))
  IN { y * mw + x : x \in sx..(ex - 1), y \in sy..(ey - 1) }

\* indices the inner loops of the rasterizer write for one rectangle
MaskWritesAt(rect, scale, mw, mh) ==
  LET sx == Max(0, FloorDiv(rect.x, scale))
      sy == Max(0, FloorDiv(rect.y, scale))
      ex == Min(mw, CeilDiv(rect.x + rect.w, scale))
      ey == Min(mh, CeilDiv(rect.y + rect.h, scale))
  IN { y * mw + x : x \in sx..(ex - 1), y \in sy..(ey - 1) }

MaskWrites(rect) == MaskWritesAt(rect, MASK_SCALE, MASK_W, MASK_H)

\* MarkRect that flips the cells of the footprint instead of setting them
MarkRectToggle(m, rect) ==
  LET wr == MaskWrites(rect)
  IN [k \in DOMAIN m |-> IF k \in wr THEN 1 - m[k] ELSE m[k]]

\* one iteration of `for (const rect of ALL_WALKABLE)`
MarkRect(m, rect) ==
  LET wr == MaskWrites(rect)
  IN [k \in DOMAIN m |-> IF k \in wr THEN 1 ELSE m[k]]

RECURSIVE RasterizeFrom(_, _, _)
RasterizeFrom(m, rects, k) ==
  IF k > Len(rects) THEN m ELSE RasterizeFrom(MarkRect(m, rects[k]), rects, k + 1)

\* the whole loop over a rectangle list, from an empty mask
Rasterize(rects) == RasterizeFrom(ZeroMask(MASK_W * MASK_H), rects, 1)

(***************************************************************************)
(* collision-mask.png emitter and the runtime reader (SkeldMapTest).       *)
(***************************************************************************)
\* EmitMaskPng that encodes walkability in the colour of an opaque image
EmitMaskPngOpaque(m) ==
  [b \in 0..(4 * MASK_W * MASK_H - 1) |->
     IF b % 4 = 3 THEN 255 ELSE IF m[b \div 4] # 0 THEN 255 ELSE 0]

\* maskPng.data.fill(0), then 255,255,255,255 for every set mask cell
EmitMaskPng(m) ==
  [b \in 0..(4 * MASK_W * MASK_H - 1) |-> IF m[b \div 4] # 0 THEN 255 ELSE 0]

\* Space overlay colour (#0a0a12)
SPACE_R == 10
SPACE_G == 10
SPACE_B == 18

\* space-overlay.png at mask resolution: 0,0,0,0 for a set mask cell, the
\* space colour with alpha 255 for every other cell
EmitOverlayMaskRes(m) ==
  [b \in 0..(4 * MASK_W * MASK_H - 1) |->
     IF m[b \div 4] # 0 THEN 0 ELSE <<SPACE_R, SPACE_G, SPACE_B, 255>>[(b % 4) + 1]]

\* (variant of the full-resolution emitter that does not scale x and y down)
EmitOverlayFullResUnscaled(m) ==
  [b \in 0..(4 * MAP_W * MAP_H - 1) |->
     LET x == (b \div 4) % MAP_W
         y == (b \div 4) \div MAP_W
         mx == Min(MASK_W - 1, x)
         my == Min(MASK_H - 1, y)
     IN IF m[my * MASK_W + mx] = 1 THEN 0
        ELSE <<SPACE_R, SPACE_G, SPACE_B, 210>>[(b % 4) + 1]]

\* space-overlay.png at full map resolution: pixel (x, y) follows mask cell
\* (min(MASK_W-1, floor(x/S)), min(MASK_H-1, floor(y/S))), tint alpha 210
EmitOverlayFullRes(m) ==
  [b \in 0..(4 * MAP_W * MAP_H - 1) |->
     LET x == (b \div 4) % MAP_W
         y == (b \div 4) \div MAP_W
         mx == Min(MASK_W - 1, FloorDiv(x, MASK_SCALE))
         my == Min(MASK_H - 1, FloorDiv(y, MASK_SCALE))
     IN IF m[my * MASK_W + mx] = 1 THEN 0
        ELSE <<SPACE_R, SPACE_G, SPACE_B, 210>>[(b % 4) + 1]]

\* drawImage + getImageData: the canvas stores premultiplied colour
CanvasChannel(c, a) ==
  IF a = 0 THEN 0 ELSE Min(255, (((c * a + 127) \div 255) * 255 + a \div 2) \div a)

LoadImageData(png) ==
  [b \in DOMAIN png |->
     LET a == png[(b \div 4) * 4 + 3]
     IN IF b % 4 = 3 THEN a ELSE CanvasChannel(png[b], a)]

isWalkable(data, mapX, mapY) ==
  IF data = Null THEN TRUE
  ELSE LET mx == FloorDiv(mapX, MASK_SCALE)
           my == FloorDiv(mapY, MASK_SCALE)
       IN IF mx < 0 \/ mx >= MASK_W \/ my < 0 \/ my >= MASK_H THEN FALSE
          ELSE data[(my * MASK_W + mx) * 4 + 3] > 0

\* isWalkable for a mask grid of mw x mh cells
isWalkableAt(data, mw, mh, mapX, mapY) ==
  IF data = Null THEN TRUE
  ELSE LET mx == FloorDiv(mapX, MASK_SCALE)
           my == FloorDiv(mapY, MASK_SCALE)
       IN IF mx < 0 \/ mx >= mw \/ my < 0 \/ my >= mh THEN FALSE
          ELSE data[(my * mw + mx) * 4 + 3] > 0

(***************************************************************************)
(* buildLookups of build-composite-map.                                    *)
(***************************************************************************)
\* offsets one rectangle's loops write on a canvas of W x H pixels
LookupWritesAt(r, W, H) ==
  LET x1 == Max(0, r.x)
      y1 == Max(0, r.y)
      x2 == Min(W, r.x + r.w)
      y2 == Min(H, r.y + r.h)
  IN { y * W + x : x \in x1..(x2 - 1), y \in y1..(y2 - 1) }

\* (variant of the loops' bounds without the clamp to the canvas)
LookupWritesUnclamped(r) ==
  { y * MAP_W + x : x \in r.x..(r.x + r.w - 1), y \in r.y..(r.y + r.h - 1) }

\* offsets one rectangle's loops write at full resolution
LookupWrites(r) == LookupWritesAt(r, MAP_W, MAP_H)

\* (variant of the room loop body that keeps an owner already recorded)
MarkRoomFirstWrite(lk, r, i) ==
  LET wr == LookupWrites(r)
  IN [walkMap |-> [k \in DOMAIN lk.walkMap |-> IF k \in wr THEN 1 ELSE lk.walkMap[k]],
      roomIdx |-> [k \in DOMAIN lk.roomIdx |->
                     IF k \in wr /\ lk.roomIdx[k] = -2 THEN i ELSE lk.roomIdx[k]]]

\* (variant of the room loop body that counts the rooms over a pixel)
MarkRoomCounting(lk, r, i) ==
  LET wr == LookupWrites(r)
  IN [walkMap |-> [k \in DOMAIN lk.walkMap |->
                     IF k \in wr THEN lk.walkMap[k] + 1 ELSE lk.walkMap[k]],
      roomIdx |-> [k \in DOMAIN lk.roomIdx |-> IF k \in wr THEN i ELSE lk.roomIdx[k]]]

\* room loop body for room number i (0-based, as in the source)
MarkRoom(lk, r, i) ==
  LET wr == LookupWrites(r)
  IN [walkMap |-> [k \in DOMAIN lk.walkMap |-> IF k \in wr THEN 1 ELSE lk.walkMap[k]],
      roomIdx |-> [k \in DOMAIN lk.roomIdx |-> IF k \in wr THEN i ELSE lk.roomIdx[k]]]

\* (variant of the corridor loop body without the "not already a room" test)
MarkCorridorOverwrite(lk, c) ==
  LET wr == LookupWrites(c)
  IN [walkMap |-> [k \in DOMAIN lk.walkMap |-> IF k \in wr THEN 1 ELSE lk.walkMap[k]],
      roomIdx |-> [k \in DOMAIN lk.roomIdx |-> IF k \in wr THEN -1 ELSE lk.roomIdx[k]]]

\* corridor loop body
MarkCorridor(lk, c) ==
  LET wr == LookupWrites(c)
  IN [walkMap |-> [k \in DOMAIN lk.walkMap |-> IF k \in wr THEN 1 ELSE lk.walkMap[k]],
      roomIdx |-> [k \in DOMAIN lk.roomIdx |->
                     IF k \in wr /\ lk.roomIdx[k] = -2 THEN -1 ELSE lk.roomIdx[k]]]

RECURSIVE RoomLoop(_, _, _)
RoomLoop(lk, rooms, k) ==
  IF k > Len(rooms) THEN lk ELSE RoomLoop(MarkRoom(lk, rooms[k], k - 1), rooms, k + 1)

RECURSIVE CorridorLoop(_, _, _)
CorridorLoop(lk, cs, k) ==
  IF k > Len(cs) THEN lk ELSE CorridorLoop(MarkCorridor(lk, cs[k]), cs, k + 1)

\* buildLookups() applied to the module-level arrays lk
buildLookups(lk, rooms, cs) == CorridorLoop(RoomLoop(lk, rooms, 1), cs, 1)

\* the module-level arrays as constructed: walkMap zeroed, roomIdx filled with -2
FreshLookups ==
  [walkMap |-> ZeroMask(MAP_W * MAP_H),
   roomIdx |-> [k \in 0..(MAP_W * MAP_H - 1) |-> -2]]

(***************************************************************************)
(* Distance field of build-composite-map (buildDistField).                 *)
(***************************************************************************)
WALL_THICKNESS == 8
DIST_CAP == WALL_THICKNESS + 4

\* body of the forward loop at pixel idx of a W x H canvas (in place)
ForwardStep(d, idx, W, H) ==
  LET x == idx % W
      y == idx \div W
      d0 == d[idx]
      d1 == IF y > 0 THEN Min(d0, d[(y - 1) * W + x] + 1) ELSE d0
      d2 == IF y > 0 /\ x > 0 THEN Min(d1, d[(y - 1) * W + (x - 1)] + 1) ELSE d1
      d3 == IF y > 0 /\ x < W - 1 THEN Min(d2, d[(y - 1) * W + (x + 1)] + 1) ELSE d2
      d4 == IF x > 0 THEN Min(d3, d[y * W + (x - 1)] + 1) ELSE d3
  IN IF d[idx] = 0 THEN d ELSE [d EXCEPT ![idx] = d4]

\* BackwardStep that looks only at the pixel below and the pixel to the right
BackwardStepNoDiagonal(d, idx, W, H) ==
  LET x == idx % W
      y == idx \div W
      d0 == d[idx]
      d1 == IF y < H - 1 THEN Min(d0, d[(y + 1) * W + x] + 1) ELSE d0
      d4 == IF x < W - 1 THEN Min(d1, d[y * W + (x + 1)] + 1) ELSE d1
  IN IF d[idx] = 0 THEN d ELSE [d EXCEPT ![idx] = d4]

\* body of the backward loop at pixel idx (in place)
BackwardStep(d, idx, W, H) ==
  LET x == idx % W
      y == idx \div W
      d0 == d[idx]
      d1 == IF y < H - 1 THEN Min(d0, d[(y + 1) * W + x] + 1) ELSE d0
      d2 == IF y < H - 1 /\ x > 0 THEN Min(d1, d[(y + 1) * W + (x - 1)] + 1) ELSE d1
      d3 == IF y < H - 1 /\ x < W - 1 THEN Min(d2, d[(y + 1) * W + (x + 1)] + 1) ELSE d2
      d4 == IF x < W - 1 THEN Min(d3, d[y * W + (x + 1)] + 1) ELSE d3
  IN IF d[idx] = 0 THEN d ELSE [d EXCEPT ![idx] = d4]

\* row y of the forward pass: x = 0..W-1
RECURSIVE ForwardRow(_, _, _, _, _)
ForwardRow(d, x, y, W, H) ==
  IF x >= W THEN d ELSE ForwardRow(ForwardStep(d, y * W + x, W, H), x + 1, y, W, H)

\* row y of the backward pass: x = W-1..0
RECURSIVE BackwardRow(_, _, _, _, _)
BackwardRow(d, x, y, W, H) ==
  IF x < 0 THEN d ELSE BackwardRow(BackwardStep(d, y * W + x, W, H), x - 1, y, W, H)

\* initialisation loop: walkable pixels get the cap, the others 0
\* (variant of the initialisation that fills with the largest byte, not the cap)
InitDistFieldUncapped(walk, W, H) ==
  [i \in 0..(W * H - 1) |-> IF walk[i] # 0 THEN 255 ELSE 0]

InitDistField(walk, W, H) ==
  [i \in 0..(W * H - 1) |-> IF walk[i] # 0 THEN DIST_CAP ELSE 0]

(***************************************************************************)
(* Morphological mask refiner of build-collision-mask (pixel analysis).    *)
(***************************************************************************)
\* erode whose window leaves out the pixel itself
erodeNeighboursOnly(src, w, h, r) ==
  [k \in 0..(w * h - 1) |->
     LET x == k % w
         y == k \div w
     IN IF \A dy \in (-r)..r, dx \in (-r)..r :
             \/ (dx = 0 /\ dy = 0)
             \/ ~(\/ x + dx < 0 \/ x + dx >= w \/ y + dy < 0 \/ y + dy >= h
                  \/ src[(y + dy) * w + (x + dx)] = 0)
        THEN 1 ELSE 0]

\* Erode: pixel is 1 only if ALL neighbours within radius are 1
erode(src, w, h, r) ==
  [k \in 0..(w * h - 1) |->
     LET x == k % w
         y == k \div w
     IN IF \A dy \in (-r)..r, dx \in (-r)..r :
             ~(\/ x + dx < 0 \/ x + dx >= w \/ y + dy < 0 \/ y + dy >= h
               \/ src[(y + dy) * w + (x + dx)] = 0)
        THEN 1 ELSE 0]

\* dilate whose window stops one short on the right and at the bottom
dilateOffByOne(src, w, h, r) ==
  [k \in 0..(w * h - 1) |->
     LET x == k % w
         y == k \div w
     IN IF \E dy \in (-r)..(r - 1), dx \in (-r)..(r - 1) :
             /\ x + dx >= 0 /\ x + dx < w /\ y + dy >= 0 /\ y + dy < h
             /\ src[(y + dy) * w + (x + dx)] # 0
        THEN 1 ELSE 0]

\* Dilate: pixel is 1 if ANY neighbour within radius is 1
dilate(src, w, h, r) ==
  [k \in 0..(w * h - 1) |->
     LET x == k % w
         y == k \div w
     IN IF \E dy \in (-r)..r, dx \in (-r)..r :
             /\ x + dx >= 0 /\ x + dx < w /\ y + dy >= 0 /\ y + dy < h
             /\ src[(y + dy) * w + (x + dx)] # 0
        THEN 1 ELSE 0]

\* the 4-connected neighbour offsets, in the order of the source
Neighbours4 == << <<1, 0>>, <<-1, 0>>, <<0, 1>>, <<0, -1>> >>

\* the neighbours of idx the flood fill pushes: inside the grid, set in dst
\* and not visited, in the order of Neighbours4
FloodPushes(dst, visited, idx, w, h) ==
  LET cx == idx % w
      cy == (idx - cx) \div w
      nIdx(j) == (cy + Neighbours4[j][2]) * w + (cx + Neighbours4[j][1])
      ok(j) == LET nx == cx + Neighbours4[j][1]
                   ny == cy + Neighbours4[j][2]
               IN /\ ~(nx < 0 \/ nx >= w \/ ny < 0 \/ ny >= h)
                  /\ visited[nIdx(j)] = 0 /\ dst[nIdx(j)] # 0
      pick(j) == IF ok(j) THEN <<nIdx(j)>> ELSE <<>>
  IN pick(1) \o pick(2) \o pick(3) \o pick(4)

\* the while loop of the flood fill: queue.pop(), component.push(idx), push
\* the neighbours; yields the component and the visited marks
RECURSIVE FloodFill(_, _, _, _, _, _)
FloodFill(dst, visited, queue, component, w, h) ==
  IF queue = <<>> THEN [component |-> component, visited |-> visited]
  ELSE LET idx == queue[Len(queue)]
           pushes == FloodPushes(dst, visited, idx, w, h)
           marked == { pushes[j] : j \in 1..Len(pushes) }
       IN FloodFill(dst,
                    [k \in DOMAIN visited |-> IF k \in marked THEN 1 ELSE visited[k]],
                    SubSeq(queue, 1, Len(queue) - 1) \o pushes,
                    Append(component, idx), w, h)

\* ScanFrom that still keeps a component of minSize - 1 pixels
RECURSIVE ScanFromOffByOne(_, _, _, _, _, _)
ScanFromOffByOne(dst, visited, startIdx, w, h, minSize) ==
  IF startIdx >= w * h THEN dst
  ELSE IF dst[startIdx] = 0 \/ visited[startIdx] # 0
    THEN ScanFromOffByOne(dst, visited, startIdx + 1, w, h, minSize)
    ELSE LET res == FloodFill(dst, [visited EXCEPT ![startIdx] = 1],
                              <<startIdx>>, <<>>, w, h)
             comp == { res.component[j] : j \in 1..Len(res.component) }
         IN ScanFromOffByOne(
              IF Len(res.component) < minSize - 1
                THEN [k \in DOMAIN dst |-> IF k \in comp THEN 0 ELSE dst[k]]
                ELSE dst,
              res.visited, startIdx + 1, w, h, minSize)

\* the scan over the start pixels (startY outer, startX inner)
RECURSIVE ScanFrom(_, _, _, _, _, _)
ScanFrom(dst, visited, startIdx, w, h, minSize) ==
  IF startIdx >= w * h THEN dst
  ELSE IF dst[startIdx] = 0 \/ visited[startIdx] # 0
    THEN ScanFrom(dst, visited, startIdx + 1, w, h, minSize)
    ELSE LET res == FloodFill(dst, [visited EXCEPT ![startIdx] = 1],
                              <<startIdx>>, <<>>, w, h)
             comp == { res.component[j] : j \in 1..Len(res.component) }
         IN ScanFrom(
              IF Len(res.component) < minSize
                THEN [k \in DOMAIN dst |-> IF k \in comp THEN 0 ELSE dst[k]]
                ELSE dst,
              res.visited, startIdx + 1, w, h, minSize)

\* Remove connected components smaller than minSize pixels
removeSmallComponents(src, w, h, minSize) ==
  ScanFrom(src, ZeroMask(w * h), 0, w, h, minSize)

\* steps 4 and 4b: opening, then small-component removal
Refine(src, w, h, re, rd, minSize) ==
  removeSmallComponents(dilate(erode(src, w, h, re), w, h, rd), w, h, minSize)

\* step 5 started from an empty bitmap instead of a copy of cleaned
UnionOverlayFromEmpty(cleanedMask, rects, w, h) ==
  [k \in DOMAIN cleanedMask |->
     IF \E j \in 1..Len(rects) : k \in MaskWritesAt(rects[j], MASK_SCALE, w, h)
       THEN 1 ELSE 0]

\* step 5: finalMask = copy of cleaned, then every overlay rectangle marked
UnionOverlay(cleanedMask, rects, w, h) ==
  [k \in DOMAIN cleanedMask |->
     IF \E j \in 1..Len(rects) : k \in MaskWritesAt(rects[j], MASK_SCALE, w, h)
       THEN 1 ELSE cleanedMask[k]]

(***************************************************************************)
(* Sprite-layer compositors of build-composite-map (layered variant and    *)
(* room-placement variant): images, crop, auto-crop, scale, alpha          *)
(* compositing.  An image is its width, height and RGBA pixels in row      *)
(* order; a pixel is <<r, g, b, a>>.                                       *)
(***************************************************************************)
FLOOR_R == 43
FLOOR_G == 43
FLOOR_B == 61

STAGE_ORDER == << "base", "walls", "roomInteriors", "foreground", "optional" >>

Image(w, h, data) == [width |-> w, height |-> h, data |-> data]

\* Math.round(n / d) for n >= 0 and d > 0
RoundDiv(n, d) == (2 * n + d) \div (2 * d)

cropPng(src, crop) ==
  LET cx == Max(0, crop.x)
      cy == Max(0, crop.y)
      ex == Min(src.width, crop.x + crop.w)
      ey == Min(src.height, crop.y + crop.h)
      cw == Max(0, ex - cx)
      ch == Max(0, ey - cy)
  IN Image(cw, ch,
           [k \in 0..(cw * ch - 1) |->
              src.data[(cy + (k \div cw)) * src.width + (cx + (k % cw))]])

contentBounds(img) ==
  LET xs == { k % img.width : k \in { j \in DOMAIN img.data : img.data[j][4] > 0 } }
      ys == { k \div img.width : k \in { j \in DOMAIN img.data : img.data[j][4] > 0 } }
  IN IF xs = {} THEN Rect(0, 0, 0, 0)
     ELSE LET minX == CHOOSE a \in xs : \A b \in xs : a <= b
              maxX == CHOOSE a \in xs : \A b \in xs : a >= b
              minY == CHOOSE a \in ys : \A b \in ys : a <= b
              maxY == CHOOSE a \in ys : \A b \in ys : a >= b
          IN Rect(minX, minY, maxX - minX + 1, maxY - minY + 1)

\* bilinear resampling; fx = fxN / dstW and fy = fyN / dstH are exact
scalePng(src, dstW, dstH) ==
  Image(dstW, dstH,
        [k \in 0..(dstW * dstH - 1) |->
           LET x == k % dstW
               y == k \div dstW
               x0 == (x * src.width) \div dstW
               y0 == (y * src.height) \div dstH
               x1 == Min(x0 + 1, src.width - 1)
               y1 == Min(y0 + 1, src.height - 1)
               fxN == (x * src.width) % dstW
               fyN == (y * src.height) % dstH
           IN [c \in 1..4 |->
                 LET v00 == src.data[y0 * src.width + x0][c]
                     v10 == src.data[y0 * src.width + x1][c]
                     v01 == src.data[y1 * src.width + x0][c]
                     v11 == src.data[y1 * src.width + x1][c]
                     topN == v00 * dstW + (v10 - v00) * fxN
                     botN == v01 * dstW + (v11 - v01) * fxN
                 IN RoundDiv(topN * dstH + (botN - topN) * fyN, dstW * dstH)]])

\* (variant of the blend without the two 'continue' guards: 0 / 0 is NaN,
\* which a Uint8 buffer stores as 0)
BlendOverUnguarded(d, s) ==
  LET outA == 255 * s[4] + d[4] * (255 - s[4])
  IN [c \in 1..4 |->
        IF outA = 0 THEN 0
        ELSE IF c = 4 THEN RoundDiv(outA, 255)
        ELSE RoundDiv(s[c] * s[4] * 255 + d[c] * d[4] * (255 - s[4]), outA)]

\* source-over blend of pixel s onto pixel d (alpha as a/255)
BlendOver(d, s) ==
  LET outA == 255 * s[4] + d[4] * (255 - s[4])
  IN IF s[4] = 0 \/ outA = 0 THEN d
     ELSE [c \in 1..4 |->
             IF c = 4 THEN RoundDiv(outA, 255)
             ELSE RoundDiv(s[c] * s[4] * 255 + d[c] * d[4] * (255 - s[4]), outA)]

\* (variant of compositeOver that keeps the destination where it is opaque)
compositeUnder(dst, src, ox, oy) ==
  Image(dst.width, dst.height,
        [k \in DOMAIN dst.data |->
           LET sx == (k % dst.width) - ox
               sy == (k \div dst.width) - oy
           IN IF sx >= 0 /\ sx < src.width /\ sy >= 0 /\ sy < src.height
                   /\ dst.data[k][4] < 255
                THEN BlendOver(dst.data[k], src.data[sy * src.width + sx])
                ELSE dst.data[k]])

compositeOver(dst, src, ox, oy) ==
  Image(dst.width, dst.height,
        [k \in DOMAIN dst.data |->
           LET sx == (k % dst.width) - ox
               sy == (k \div dst.width) - oy
           IN IF sx >= 0 /\ sx < src.width /\ sy >= 0 /\ sy < src.height
                THEN BlendOver(dst.data[k], src.data[sy * src.width + sx])
                ELSE dst.data[k]])

createCanvas ==
  Image(MAP_W, MAP_H,
        [k \in 0..(MAP_W * MAP_H - 1) |-> << FLOOR_R, FLOOR_G, FLOOR_B, 255 >>])

\* LayerConfig; scale is the fraction <<numerator, denominator>>, a layer
\* without crop has hasCrop = FALSE
Layer(id, stage, file, x, y, scale, hasCrop, crop, enabled) ==
  [id |-> id, stage |-> stage, file |-> file, x |-> x, y |-> y, scale |-> scale,
   hasCrop |-> hasCrop, crop |-> crop, enabled |-> enabled]

NoCrop == Rect(0, 0, 0, 0)

\* an image of w x h pixels whose top-left cw x ch pixels hold colour px and
\* whose other pixels are transparent
SpriteImage(w, h, cw, ch, px) ==
  Image(w, h, [k \in 0..(w * h - 1) |->
                 IF k % w < cw /\ k \div w < ch THEN px ELSE << 0, 0, 0, 0 >>])

\* a 4 x 4 fragment, opaque black but for pixel k, which is pure magenta
MAGENTA == << 255, 0, 255, 255 >>
KeyedFragment(k) ==
  Image(4, 4, [j \in 0..15 |-> IF j = k THEN MAGENTA ELSE << 0, 0, 0, 255 >>])
\* the fragment files and the index of the magenta pixel of each
FragmentKey == [fragment0 |-> 0, fragment6 |-> 6, fragment15 |-> 15]
FragmentFiles == DOMAIN FragmentKey

\* the files under MAPS_DIR: PNG.sync.read(fs.readFileSync(filePath))
loadPng(file) ==
  CASE file = "base"     -> SpriteImage(8, 6, 8, 6, << 90, 90, 90, 255 >>)
    [] file = "walls"    -> SpriteImage(6, 3, 6, 3, << 200, 40, 40, 128 >>)
    [] file = "weapons"  -> SpriteImage(4, 4, 4, 4, << 40, 200, 40, 255 >>)
    [] file = "dropship" -> SpriteImage(4, 4, 4, 4, << 40, 40, 200, 255 >>)
    [] file = "hull"     -> SpriteImage(7, 2, 2, 2, << 200, 200, 40, 255 >>)
    [] file = "compLab"  -> SpriteImage(6, 4, 6, 4, << 40, 200, 200, 255 >>)
    [] file \in FragmentFiles -> KeyedFragment(FragmentKey[file])

SourceFiles == { "base", "walls", "weapons", "dropship", "hull", "compLab" }
OptionalIds == { "dropshipTop", "hull", "compLabAdmin" }

\* crop and scale of the room-interior layer: no crop, a crop of one column,
\* a crop beyond the source; full size, half, quarter
InteriorCrops ==
  { << FALSE, NoCrop >>, << TRUE, Rect(1, 1, 1, 2) >>, << TRUE, Rect(4, 0, 2, 2) >> }
InteriorScales == { << 1, 1 >>, << 1, 2 >>, << 1, 4 >> }

\* LAYER_STACK with the room-interior layer cropped by c and scaled by s
LayerStackWith(c, s) ==
  [ base |-> << Layer("baseMap", "base", "base", 0, 0, << 1, 1 >>, FALSE, NoCrop, TRUE) >>,
    walls |-> << Layer("cafeteriaWalls", "walls", "walls", 2, 0, << 1, 1 >>, FALSE, NoCrop, TRUE) >>,
    roomInteriors |-> << Layer("weapons", "roomInteriors", "weapons", 1, 1, s, c[1], c[2], TRUE) >>,
    foreground |-> << Layer("dropshipTop", "foreground", "dropship", 3, -1, << 1, 2 >>,
                            FALSE, NoCrop, FALSE) >>,
    optional |-> << Layer("hull", "optional", "hull", 1, 2, << 1, 1 >>, FALSE, NoCrop, FALSE),
                    Layer("compLabAdmin", "optional", "compLab", 2, 2, << 1, 2 >>,
                          TRUE, Rect(2, 0, 4, 4), FALSE) >> ]

fsExistsSync(file) == file \in existingFiles

shouldRenderLayer(layer) ==
  IF ~layer.enabled /\ layer.stage # "optional" THEN FALSE
  ELSE IF layer.stage # "optional" THEN TRUE
  ELSE layer.enabled \/ layer.id \in includeOptional

\* the explicit crop and the auto-crop of transparent padding
CropSteps(layer) ==
  LET loaded == loadPng(layer.file)
      src == IF layer.hasCrop THEN cropPng(loaded, layer.crop) ELSE loaded
      bounds == contentBounds(src)
  IN IF bounds.w > 0 /\ bounds.h > 0
          /\ (bounds.x > 2 \/ bounds.y > 2
              \/ bounds.w < src.width - 4 \/ bounds.h < src.height - 4)
       THEN cropPng(src, bounds)
       ELSE src

RenderNull == [null |-> TRUE, image |-> Image(0, 0, << >>), rect |-> Rect(0, 0, 0, 0)]
Rendered(layer, img) ==
  [null |-> FALSE, image |-> img, rect |-> Rect(layer.x, layer.y, img.width, img.height)]

\* the scaling step; always is TRUE where the scale is applied whatever it is
ScaleStep(layer, src, always) ==
  IF always \/ layer.scale # << 1, 1 >>
    THEN LET scaledW == RoundDiv(src.width * layer.scale[1], layer.scale[2])
             scaledH == RoundDiv(src.height * layer.scale[1], layer.scale[2])
         IN IF scaledW < 1 \/ scaledH < 1 THEN RenderNull
            ELSE Rendered(layer, scalePng(src, scaledW, scaledH))
    ELSE Rendered(layer, src)

\* renderLayer of the layered compositor
renderLayer(layer) ==
  IF ~fsExistsSync(layer.file) THEN RenderNull
  ELSE ScaleStep(layer, CropSteps(layer), FALSE)

\* loop body of the room-placement compositor up to its compositeOver
renderPlacement(room) ==
  IF ~fsExistsSync(room.file) THEN RenderNull
  ELSE ScaleStep(room, CropSteps(room), TRUE)

\* step 2 of the room-placement compositor: the base map as loaded
renderBaseMap(layer) ==
  IF ~fsExistsSync(layer.file) THEN RenderNull
  ELSE Rendered(layer, loadPng(layer.file))

RECURSIVE ConcatStages(_)
ConcatStages(k) ==
  IF k > Len(STAGE_ORDER) THEN << >>
  ELSE LAYER_STACK[STAGE_ORDER[k]] \o ConcatStages(k + 1)

\* the room-placement compositor's list: every layer above the base
ROOM_PLACEMENTS == ConcatStages(2)

\* number of passes of a run and the layers a pass goes through
NumStages == IF compVariant = "layered" THEN Len(STAGE_ORDER) ELSE 2
ActiveLayers(stageIdx) ==
  IF compVariant = "layered"
    THEN SelectSeq(LAYER_STACK[STAGE_ORDER[stageIdx + 1]], shouldRenderLayer)
    ELSE IF stageIdx = 0 THEN LAYER_STACK["base"] ELSE ROOM_PLACEMENTS

RenderResult(layer) ==
  IF compVariant = "layered" THEN renderLayer(layer)
  ELSE IF layer.stage = "base" THEN renderBaseMap(layer)
  ELSE renderPlacement(layer)

(***************************************************************************)
(* Idle values of the parts a run does not use.                            *)
(***************************************************************************)
RasterIdle ==
  /\ ROOMS = <<>> /\ CORRIDORS = <<>> /\ rectI = 1
  /\ mask = Null /\ maskPng = Null /\ collisionData = Null
  /\ overlayVariant = "none" /\ overlayPng = Null
  /\ walkMap = Null /\ roomIdx = Null

DistIdle ==
  /\ distW = 0 /\ distH = 0 /\ distWalk = Null /\ distField = Null /\ distY = 0

MorphIdle ==
  /\ morphW = 0 /\ morphH = 0 /\ rawMask = Null
  /\ erodeR = 0 /\ dilateR = 0 /\ minComponentSize = 0 /\ overlayRects = <<>>
  /\ opened = Null /\ cleaned = Null /\ finalMask = Null /\ reapplied = Null

CompIdle ==
  /\ compVariant = "none" /\ LAYER_STACK = Null /\ existingFiles = {}
  /\ includeOptional = {} /\ stageIndex = 0 /\ layerI = 1
  /\ canvas = Null /\ renderedLayers = << >> /\ skeldMapPng = Null

BlendIdle == blendDst = Null /\ blendSrc = Null /\ blendOx = 0 /\ blendOy = 0

UiIdle ==
  /\ nodeCount = 0 /\ connections = << >> /\ selectedLeft = -1
  /\ rightColors = << >> /\ onCompleteInvoked = FALSE
  /\ dragData = << >>

GameIdle == keysRef = {} /\ posRef = Null

(***************************************************************************)
(* Run 1: build-collision-mask, build-composite-map's buildLookups, then   *)
(* the runtime loading collision-mask.png.                                 *)
(***************************************************************************)
Init ==
  /\ ROOMS \in RoomLists
  /\ CORRIDORS \in CorridorLists
  /\ pc = "rasterize"
  /\ rectI = 1
  /\ mask = ZeroMask(MASK_W * MASK_H)
  /\ maskPng = Null
  /\ overlayVariant = "none"
  /\ overlayPng = Null
  /\ collisionData = Null
  /\ walkMap = FreshLookups.walkMap
  /\ roomIdx = FreshLookups.roomIdx
  /\ DistIdle
  /\ MorphIdle
  /\ CompIdle
  /\ BlendIdle
  /\ UiIdle
  /\ GameIdle

\* one iteration of the mask rasterizer loop
RasterizeRect ==
  /\ pc = "rasterize"
  /\ rectI <= Len(ALL_WALKABLE)
  /\ mask' = MarkRect(mask, ALL_WALKABLE[rectI])
  /\ rectI' = rectI + 1
  /\ UNCHANGED <<pc, ROOMS, CORRIDORS, maskPng, overlayVariant, overlayPng,
                 collisionData, walkMap, roomIdx>>
  /\ UNCHANGED <<distVars, morphVars, compVars, blendVars, uiVars, gameVars>>

\* step 2 of the mask script: write collision-mask.png
WriteCollisionMask ==
  /\ pc = "rasterize"
  /\ rectI > Len(ALL_WALKABLE)
  /\ maskPng' = EmitMaskPng(mask)
  /\ pc' = "overlay"
  /\ UNCHANGED <<ROOMS, CORRIDORS, rectI, mask, overlayVariant, overlayPng,
                 collisionData, walkMap, roomIdx>>
  /\ UNCHANGED <<distVars, morphVars, compVars, blendVars, uiVars, gameVars>>

\* step 3 of the mask script: write space-overlay.png, at mask resolution
\* (rectangle variant) or at full map resolution (shared-geometry variant)
WriteSpaceOverlay ==
  /\ pc = "overlay"
  /\ \E v \in {"mask", "full"} :
       /\ overlayVariant' = v
       /\ overlayPng' = IF v = "mask" THEN EmitOverlayMaskRes(mask)
                                      ELSE EmitOverlayFullRes(mask)
  /\ pc' = "lookups"
  /\ UNCHANGED <<ROOMS, CORRIDORS, rectI, mask, maskPng, collisionData, walkMap, roomIdx>>
  /\ UNCHANGED <<distVars, morphVars, compVars, blendVars, uiVars, gameVars>>

\* build-composite-map: buildLookups() on the module-level arrays
BuildLookups ==
  /\ pc = "lookups"
  /\ LET lk == buildLookups([walkMap |-> walkMap, roomIdx |-> roomIdx], ROOMS, CORRIDORS)
     IN /\ walkMap' = lk.walkMap
        /\ roomIdx' = lk.roomIdx
  /\ pc' = "load"
  /\ UNCHANGED <<ROOMS, CORRIDORS, rectI, mask, maskPng, overlayVariant, overlayPng,
                 collisionData>>
  /\ UNCHANGED <<distVars, morphVars, compVars, blendVars, uiVars, gameVars>>

\* runtime: img.onload of the collision mask
MaskOnload ==
  /\ pc = "load"
  /\ collisionData' = LoadImageData(maskPng)
  /\ pc' = "done"
  /\ UNCHANGED <<ROOMS, CORRIDORS, rectI, mask, maskPng, overlayVariant, overlayPng,
                 walkMap, roomIdx>>
  /\ UNCHANGED <<distVars, morphVars, compVars, blendVars, uiVars, gameVars>>

Next ==
  RasterizeRect \/ WriteCollisionMask \/ WriteSpaceOverlay \/ BuildLookups \/ MaskOnload

Spec == Init /\ [][Next]_vars

\* buildLookups() called once more, on the arrays the first call filled
BuildLookupsAgain ==
  /\ pc = "done"
  /\ LET lk == buildLookups([walkMap |-> walkMap, roomIdx |-> roomIdx], ROOMS, CORRIDORS)
     IN /\ walkMap' = lk.walkMap
        /\ roomIdx' = lk.roomIdx
  /\ pc' = "rebuilt"
  /\ UNCHANGED <<ROOMS, CORRIDORS, rectI, mask, maskPng, overlayVariant, overlayPng,
                 collisionData>>
  /\ UNCHANGED <<distVars, morphVars, compVars, blendVars, uiVars, gameVars>>

RerunNext == Next \/ BuildLookupsAgain

\* run 1 followed by the second call
RerunSpec == Init /\ [][RerunNext]_vars

(***************************************************************************)
(* Properties of run 1.                                                    *)
(***************************************************************************)
MaskCells == 0..(MASK_W * MASK_H - 1)
MapPixels == { <<x, y>> : x \in 0..(MAP_W - 1), y \in 0..(MAP_H - 1) }
\* query points of the runtime, some of them off the canvas and off the grid
QueryPoints == { <<x, y>> : x \in (-MASK_SCALE - 1)..(MASK_W * MASK_SCALE + 1),
                            y \in (-MASK_SCALE - 1)..(MASK_H * MASK_SCALE + 1) }
InMaskGrid(mx, my) == mx >= 0 /\ mx < MASK_W /\ my >= 0 /\ my < MASK_H
\* mask cell (mx, my) is walkable in bitmap m
CellWalkable(m, mx, my) == InMaskGrid(mx, my) /\ m[my * MASK_W + mx] = 1
\* the map pixels of mask cell (mx, my): its S x S block
CellBlock(mx, my) ==
  { <<x, y>> : x \in (mx * MASK_SCALE)..(mx * MASK_SCALE + MASK_SCALE - 1),
               y \in (my * MASK_SCALE)..(my * MASK_SCALE + MASK_SCALE - 1) }
InRect(r, x, y) == r.x <= x /\ x < r.x + r.w /\ r.y <= y /\ y < r.y + r.h
MaskFinished == rectI > Len(ALL_WALKABLE)

\* C1: for every canvas pixel (x, y), mask cell (floor(x/S), floor(y/S)) is
\* walkable if and only if buildLookups' walkMap marks (x, y) walkable.
C1_MaskEqualsWalkMap ==
  pc = "done" =>
    \A p \in MapPixels :
      CellWalkable(mask, p[1] \div MASK_SCALE, p[2] \div MASK_SCALE)
        <=> walkMap[p[2] * MAP_W + p[1]] = 1

\* C2: the emitted image holds (255,255,255,255) for every walkable cell and
\* alpha 0 for every other cell, and once it is loaded isWalkable(mapX, mapY)
\* is true exactly when the point lies in a cell of the grid that the
\* generator's bitmap marks walkable; a point off the grid is never walkable.
C2_MaskImageAgreesWithQuery ==
  /\ maskPng # Null =>
       \A k \in MaskCells :
         IF mask[k] = 1
           THEN \A c \in 0..3 : maskPng[4 * k + c] = 255
           ELSE maskPng[4 * k + 3] = 0
  /\ collisionData # Null =>
       \A q \in QueryPoints :
         isWalkable(collisionData, q[1], q[2])
           <=> \E mx \in 0..(MASK_W - 1), my \in 0..(MASK_H - 1) :
                 /\ mx * MASK_SCALE <= q[1] /\ q[1] < (mx + 1) * MASK_SCALE
                 /\ my * MASK_SCALE <= q[2] /\ q[2] < (my + 1) * MASK_SCALE
                 /\ mask[my * MASK_W + mx] = 1

C2_Witness ==
  /\ pc = "done"
  /\ \E k \in MaskCells : mask[k] = 1
  /\ \E k \in MaskCells : mask[k] = 0
  /\ \E q \in QueryPoints : isWalkable(collisionData, q[1], q[2])
  /\ \E q \in QueryPoints : ~isWalkable(collisionData, q[1], q[2]) /\ q[1] >= MAP_W

\* C3: with a single rectangle of positive size, cell (mx, my) is walkable
\* exactly when it lies in the grid and floor(x/S) <= mx < ceil((x+w)/S) and
\* floor(y/S) <= my < ceil((y+h)/S), that is when the cell's block of map
\* pixels intersects the rectangle; for {100,100,50,50} at S = 4 on a 512x468
\* grid cell (31,31) is walkable and cell (10,10) is not.
C3_SingleRectFootprint ==
  /\ (MaskFinished /\ Len(ALL_WALKABLE) = 1 /\ ALL_WALKABLE[1].w > 0 /\ ALL_WALKABLE[1].h > 0) =>
       LET r == ALL_WALKABLE[1]
       IN \A mx \in (-1)..MASK_W, my \in (-1)..MASK_H :
            /\ CellWalkable(mask, mx, my)
                 <=> /\ InMaskGrid(mx, my)
                     /\ FloorDiv(r.x, MASK_SCALE) <= mx
                     /\ mx < CeilDiv(r.x + r.w, MASK_SCALE)
                     /\ FloorDiv(r.y, MASK_SCALE) <= my
                     /\ my < CeilDiv(r.y + r.h, MASK_SCALE)
            /\ CellWalkable(mask, mx, my)
                 <=> /\ InMaskGrid(mx, my)
                     /\ \E p \in CellBlock(mx, my) : InRect(r, p[1], p[2])
  /\ 31 * 512 + 31 \in MaskWritesAt(Rect(100, 100, 50, 50), 4, 512, 468)
  /\ 10 * 512 + 10 \notin MaskWritesAt(Rect(100, 100, 50, 50), 4, 512, 468)

C3_Witness ==
  /\ MaskFinished /\ Len(ALL_WALKABLE) = 1
  /\ ALL_WALKABLE[1].w > 0 /\ ALL_WALKABLE[1].h > 0
  /\ ALL_WALKABLE[1].x % MASK_SCALE # 0
  /\ (ALL_WALKABLE[1].x + ALL_WALKABLE[1].w) % MASK_SCALE # 0
  /\ \E k \in MaskCells : mask[k] = 1
  /\ \E k \in MaskCells : mask[k] = 0

\* list s with rectangle b inserted after its first p elements
InsertAt(s, b, p) == SubSeq(s, 1, p) \o <<b>> \o SubSeq(s, p + 1, Len(s))
BitmapSubset(a, b) == \A k \in DOMAIN a : a[k] = 1 => b[k] = 1

\* C5: a step of the rasterizer never un-marks a cell, and the walkable set of
\* a geometry is contained in that of the geometry with one more rectangle,
\* wherever the rectangle is put in the list.
C5_StepKeepsWalkable ==
  /\ \A k \in DOMAIN mask : mask[k] = 1 => mask'[k] = 1
  /\ \A k \in DOMAIN walkMap : walkMap[k] = 1 => walkMap'[k] = 1

C5_SupersetWithMoreRects ==
  (pc = "rasterize" /\ rectI = 1) =>
    \A b \in Rects :
      /\ \A p \in 0..Len(ALL_WALKABLE) :
           BitmapSubset(Rasterize(ALL_WALKABLE), Rasterize(InsertAt(ALL_WALKABLE, b, p)))
      /\ \A p \in 0..Len(ROOMS) :
           BitmapSubset(buildLookups(FreshLookups, ROOMS, CORRIDORS).walkMap,
                        buildLookups(FreshLookups, InsertAt(ROOMS, b, p), CORRIDORS).walkMap)
      /\ \A p \in 0..Len(CORRIDORS) :
           BitmapSubset(buildLookups(FreshLookups, ROOMS, CORRIDORS).walkMap,
                        buildLookups(FreshLookups, ROOMS, InsertAt(CORRIDORS, b, p)).walkMap)

C5_RasterizationMonotone ==
  [][C5_StepKeepsWalkable]_vars /\ []C5_SupersetWithMoreRects

\* a cell marked by the first rectangle is still marked after the second
\* rectangle, whose footprint does not contain it, has been rasterized
C5_Witness ==
  /\ pc = "rasterize" /\ rectI = 3
  /\ \E k \in MaskWrites(ALL_WALKABLE[1]) :
       k \notin MaskWrites(ALL_WALKABLE[2]) /\ mask[k] = 1
  /\ MaskWrites(ALL_WALKABLE[2]) # {}

\* buildLookups has run on the module-level arrays
LookupsBuilt == pc \in {"load", "done"}
\* 0-based indices of the room rectangles that cover canvas pixel p
RoomsCovering(p) ==
  { i \in 0..(Len(ROOMS) - 1) : InRect(ROOMS[i + 1], p[1], p[2]) }
CorridorCovers(p) ==
  \E j \in 1..Len(CORRIDORS) : InRect(CORRIDORS[j], p[1], p[2])
SetMax(S) == CHOOSE m \in S : \A n \in S : m >= n
LeastOf(S) == CHOOSE m \in S : \A n \in S : m <= n

\* C11 as claimed: after buildLookups a pixel covered by two or more room
\* rectangles holds the index of the first of them in list order.
C11_FirstRoomOwns ==
  LookupsBuilt =>
    \A p \in MapPixels :
      Cardinality(RoomsCovering(p)) >= 2 =>
        roomIdx[p[2] * MAP_W + p[1]] = LeastOf(RoomsCovering(p))

\* C11 amended: after buildLookups a pixel covered by room rectangles holds
\* the index of the last of them in list order; a later room rectangle
\* replaces the owner recorded by an earlier one.
C11_LastRoomOwns ==
  LookupsBuilt =>
    \A p \in MapPixels :
      RoomsCovering(p) # {} =>
        roomIdx[p[2] * MAP_W + p[1]] = SetMax(RoomsCovering(p))

\* two different room rectangles overlap on a pixel and the second owns it
C11_Witness ==
  /\ LookupsBuilt /\ Len(ROOMS) = 2 /\ ROOMS[1] # ROOMS[2]
  /\ \E p \in MapPixels :
       /\ RoomsCovering(p) = {0, 1}
       /\ roomIdx[p[2] * MAP_W + p[1]] = 1
  /\ \E p \in MapPixels :
       /\ RoomsCovering(p) = {0}
       /\ roomIdx[p[2] * MAP_W + p[1]] = 0

\* C12: after buildLookups a pixel covered by a room rectangle has
\* roomIdx >= 0 also when corridors cover it, roomIdx is -1 exactly for the
\* pixels covered by corridors only and -2 exactly for the pixels covered
\* by nothing, and walkMap is 1 exactly where roomIdx is not -2.
C12_RoomIdxClassifiesPixels ==
  LookupsBuilt =>
    \A p \in MapPixels :
      LET off == p[2] * MAP_W + p[1]
      IN /\ RoomsCovering(p) # {} => roomIdx[off] >= 0
         /\ roomIdx[off] = -1 <=> (RoomsCovering(p) = {} /\ CorridorCovers(p))
         /\ roomIdx[off] = -2 <=> (RoomsCovering(p) = {} /\ ~CorridorCovers(p))
         /\ walkMap[off] = 1 <=> roomIdx[off] # -2

\* a pixel under a room and a corridor, one under a corridor only, one bare
C12_Witness ==
  /\ LookupsBuilt
  /\ \E p \in MapPixels :
       /\ RoomsCovering(p) # {} /\ CorridorCovers(p)
       /\ roomIdx[p[2] * MAP_W + p[1]] >= 0
  /\ \E p \in MapPixels : roomIdx[p[2] * MAP_W + p[1]] = -1
  /\ \E p \in MapPixels : roomIdx[p[2] * MAP_W + p[1]] = -2

\* the four bytes of pixel k of an RGBA buffer
Rgba(png, k) == <<png[4 * k], png[4 * k + 1], png[4 * k + 2], png[4 * k + 3]>>

\* C13: the space overlay is the inverse of the collision mask: an overlay
\* pixel is (0,0,0,0) exactly when the mask cell it maps to is walkable and
\* is the tint (10,10,18) with non-zero alpha otherwise; at full resolution
\* pixel (x, y) maps to cell (min(MASK_W-1, floor(x/S)), min(MASK_H-1,
\* floor(y/S))), so no pixel is walkable in the mask and tinted.
C13_OverlayInvertsMask ==
  /\ overlayVariant = "mask" =>
       \A k \in MaskCells :
         LET px == Rgba(overlayPng, k)
         IN /\ px = <<0, 0, 0, 0>> <=> mask[k] = 1
            /\ mask[k] # 1 =>
                 px[1] = 10 /\ px[2] = 10 /\ px[3] = 18 /\ px[4] > 0
  /\ overlayVariant = "full" =>
       \A p \in MapPixels :
         LET px == Rgba(overlayPng, p[2] * MAP_W + p[1])
             mx == Min(MASK_W - 1, p[1] \div MASK_SCALE)
             my == Min(MASK_H - 1, p[2] \div MASK_SCALE)
         IN /\ px = <<0, 0, 0, 0>> <=> mask[my * MASK_W + mx] = 1
            /\ mask[my * MASK_W + mx] # 1 =>
                 px[1] = 10 /\ px[2] = 10 /\ px[3] = 18 /\ px[4] > 0
            /\ ~(CellWalkable(mask, p[1] \div MASK_SCALE, p[2] \div MASK_SCALE) /\ px[4] > 0)

\* a full-resolution overlay with transparent and tinted pixels
C13_Witness ==
  /\ overlayVariant = "full"
  /\ \E k \in MaskCells : mask[k] = 1
  /\ \E p \in MapPixels : Rgba(overlayPng, p[2] * MAP_W + p[1]) = <<0, 0, 0, 0>>
  /\ \E p \in MapPixels : Rgba(overlayPng, p[2] * MAP_W + p[1]) = <<10, 10, 18, 210>>

HasArea(r) == r.w > 0 /\ r.h > 0
\* list rects without its zero-size rectangles
WithArea(rects) == SelectSeq(rects, HasArea)

\* C14: a rectangle with w = 0 or h = 0 covers no pixels: the mask and the
\* full-resolution walkability bitmap of a geometry are those of the
\* geometry without its zero-size rectangles, wherever these are placed.
C14_ZeroSizeRectIsNoOp ==
  /\ MaskFinished => mask = Rasterize(WithArea(ALL_WALKABLE))
  /\ LookupsBuilt =>
       walkMap = buildLookups(FreshLookups, WithArea(ROOMS), WithArea(CORRIDORS)).walkMap

\* rectangles beyond every side of the canvas: wholly outside, crossing an
\* edge, and larger than the canvas
OutlyingExtents(n) == { <<-6, 2>>, <<-3, 5>>, <<n, 3>>, <<n - 2, 9>>, <<-5, n + 12>> }
OutlyingRects ==
  { Rect(a[1], b[1], a[2], b[2]) : a \in OutlyingExtents(MAP_W), b \in OutlyingExtents(MAP_H) }
WhollyOutside(r) ==
  r.x + r.w <= 0 \/ r.x >= MAP_W \/ r.y + r.h <= 0 \/ r.y >= MAP_H
\* wholly outside the map pixels the mask grid stands for; the shipped
\* canvas, 2048 x 1872, is a whole number of cells and the two coincide
WhollyOutsideGrid(r) ==
  \/ r.x + r.w <= 0 \/ r.x >= MASK_W * MASK_SCALE
  \/ r.y + r.h <= 0 \/ r.y >= MASK_H * MASK_SCALE
\* the rectangles of the geometry
GeometryRects == { ALL_WALKABLE[j] : j \in 1..Len(ALL_WALKABLE) }

\* C15: for any rectangle, also one with negative origin or reaching beyond
\* the canvas, both rasterizers write inside the grid only: every written
\* index is in [0, W*H), its column lies in [0, W) and in the rectangle's own
\* column range (no write wraps into another row), and a rectangle wholly
\* outside the canvas marks nothing.
C15_WritesStayInGrid ==
  \A r \in GeometryRects \cup OutlyingRects :
    /\ \A k \in MaskWrites(r) :
         /\ 0 <= k /\ k < MASK_W * MASK_H
         /\ FloorDiv(r.x, MASK_SCALE) <= k % MASK_W
         /\ k % MASK_W < CeilDiv(r.x + r.w, MASK_SCALE)
         /\ FloorDiv(r.y, MASK_SCALE) <= k \div MASK_W
         /\ k \div MASK_W < CeilDiv(r.y + r.h, MASK_SCALE)
    /\ \A k \in LookupWrites(r) :
         /\ 0 <= k /\ k < MAP_W * MAP_H
         /\ InRect(r, k % MAP_W, k \div MAP_W)
    /\ WhollyOutside(r) => LookupWrites(r) = {}
    /\ WhollyOutsideGrid(r) => MaskWrites(r) = {}
    /\ \A o \in { Rect(2048, r.y, r.w, r.h), Rect(r.x, 1872, r.w, r.h),
                   Rect(-r.w, r.y, r.w, r.h), Rect(r.x, -r.h, r.w, r.h) } :
         MaskWritesAt(o, 4, 512, 468) = {}

\* a rectangle with negative origin and one reaching beyond the canvas have
\* been rasterized and each marked cells, one wholly outside marked none
C15_Witness ==
  /\ LookupsBuilt /\ Len(ROOMS) = 2
  /\ ROOMS[1].x < 0 /\ ROOMS[1].y < 0 /\ MaskWrites(ROOMS[1]) # {}
  /\ ROOMS[2].x + ROOMS[2].w > MAP_W /\ ROOMS[2].y + ROOMS[2].h > MAP_H
  /\ LookupWrites(ROOMS[2]) # {}
  /\ \E k \in MaskCells : mask[k] = 0
  /\ \E k \in DOMAIN walkMap : walkMap[k] = 0

\* C24 (step): the second call of buildLookups leaves walkMap and roomIdx
\* exactly as the first call left them.
C24_SecondCallChangesNothing ==
  pc = "done" => (walkMap' = walkMap /\ roomIdx' = roomIdx)

\* C24 (state): what a run leaves is a function of the geometry alone: the
\* mask is the rasterization of the rectangle list from an empty mask, and
\* walkMap and roomIdx are those of buildLookups on fresh arrays, after the
\* first call and after the second.
C24_RunDependsOnGeometryOnly ==
  /\ MaskFinished => mask = Rasterize(ALL_WALKABLE)
  /\ pc \in {"load", "done", "rebuilt"} =>
       LET lk == buildLookups(FreshLookups, ROOMS, CORRIDORS)
       IN walkMap = lk.walkMap /\ roomIdx = lk.roomIdx

\* C24: the rasterizer is deterministic and re-runnable: the bitmaps and the
\* room-index map of a run are determined by the geometry, and a second
\* call of buildLookups on the filled arrays changes neither array.
C24_DeterministicAndRerunnable ==
  [][C24_SecondCallChangesNothing]_vars /\ []C24_RunDependsOnGeometryOnly

\* buildLookups has been called twice on a geometry of two overlapping
\* rooms and a corridor, with room, corridor-only and non-walkable pixels
C24_Witness ==
  /\ pc = "rebuilt"
  /\ Len(ROOMS) = 2 /\ Len(CORRIDORS) = 1
  /\ LookupWrites(ROOMS[1]) \cap LookupWrites(ROOMS[2]) # {}
  /\ \E k \in DOMAIN roomIdx : roomIdx[k] = -1
  /\ \E k \in DOMAIN roomIdx : roomIdx[k] = -2
  /\ \E k \in DOMAIN roomIdx : roomIdx[k] = 0

(***************************************************************************)
(* Run 2: buildDistField on a walkability bitmap.  The bitmaps are all     *)
(* bitmaps of a small canvas, and the bitmaps with few non-walkable pixels *)
(* of a strip longer than DIST_CAP.                                        *)
(***************************************************************************)
DistW == 3
DistH == 3
StripW == 14
StripH == 2
MaxHoles == 2

\* bitmap of n pixels whose non-walkable pixels are the set holes
BitmapWithHoles(n, holes) == [k \in 0..(n - 1) |-> IF k \in holes THEN 0 ELSE 1]

RECURSIVE SubsetsUpTo(_, _)
SubsetsUpTo(S, n) ==
  IF n = 0 THEN { {} }
  ELSE LET prev == SubsetsUpTo(S, n - 1)
       IN prev \cup { t \cup {e} : t \in prev, e \in S }

DistInit ==
  /\ pc = "dist"
  /\ \/ /\ distW = DistW /\ distH = DistH
        /\ distWalk \in [0..(DistW * DistH - 1) -> {0, 1}]
     \/ /\ distW = StripW /\ distH = StripH
        /\ distWalk \in { BitmapWithHoles(StripW * StripH, hs) :
                            hs \in SubsetsUpTo(0..(StripW * StripH - 1), MaxHoles) }
  /\ distField = Null
  /\ distY = 0
  /\ RasterIdle
  /\ MorphIdle
  /\ CompIdle
  /\ BlendIdle
  /\ UiIdle
  /\ GameIdle

\* buildDistField: the initialisation loop
DistFill ==
  /\ pc = "dist"
  /\ distField' = InitDistField(distWalk, distW, distH)
  /\ distY' = 0
  /\ pc' = "forward"
  /\ UNCHANGED <<distW, distH, distWalk, rasterVars, morphVars, compVars, blendVars, uiVars, gameVars>>

\* buildDistField: one row of the forward pass, top to bottom
DistForwardRow ==
  /\ pc = "forward"
  /\ distField' = ForwardRow(distField, 0, distY, distW, distH)
  /\ IF distY + 1 < distH
       THEN distY' = distY + 1 /\ pc' = pc
       ELSE distY' = distH - 1 /\ pc' = "backward"
  /\ UNCHANGED <<distW, distH, distWalk, rasterVars, morphVars, compVars, blendVars, uiVars, gameVars>>

\* buildDistField: one row of the backward pass, bottom to top
DistBackwardRow ==
  /\ pc = "backward"
  /\ distField' = BackwardRow(distField, distW - 1, distY, distW, distH)
  /\ IF distY > 0
       THEN distY' = distY - 1 /\ pc' = pc
       ELSE distY' = 0 /\ pc' = "distDone"
  /\ UNCHANGED <<distW, distH, distWalk, rasterVars, morphVars, compVars, blendVars, uiVars, gameVars>>

\* what stages 1 and 2 leave on the canvas: space where roomIdx is -2, a
\* floor pattern elsewhere (pixels are modelled by the kind of their colour)
drawFloors(walk) == [k \in DOMAIN walk |-> IF walk[k] = 0 THEN "space" ELSE "floor"]

\* stage 3: the shading drawWalls gives each pixel from its distance value
drawWalls(cv, walk, dist) ==
  [k \in DOMAIN cv |->
     IF walk[k] = 0 THEN cv[k]
     ELSE IF dist[k] > WALL_THICKNESS THEN cv[k]
     ELSE IF dist[k] <= 2 THEN "outer"
     ELSE IF dist[k] <= 4 THEN "mid"
     ELSE IF dist[k] <= 6 THEN "inner"
     ELSE "transition"]

\* main after buildDistField: stages 1 to 3 on a fresh canvas
DrawWalls ==
  /\ pc = "distDone"
  /\ canvas' = drawWalls(drawFloors(distWalk), distWalk, distField)
  /\ pc' = "walls"
  /\ UNCHANGED << compVariant, LAYER_STACK, existingFiles, includeOptional, stageIndex, layerI,
                  renderedLayers, skeldMapPng >>
  /\ UNCHANGED << distVars, rasterVars, morphVars, blendVars, uiVars, gameVars >>

DistNext == DistFill \/ DistForwardRow \/ DistBackwardRow \/ DrawWalls

DistSpec == DistInit /\ [][DistNext]_vars

(***************************************************************************)
(* Run 2b: buildLookups of a geometry of one room and no corridors on a    *)
(* canvas wide enough for a room whose centre is farther than DIST_CAP     *)
(* from its edges, then buildDistField.                                    *)
(***************************************************************************)
MaxRoomSide == 26
RoomCanvasW == MaxRoomSide + 2
RoomCanvasH == MaxRoomSide + 2
RoomSides == { 1, 2, 3, 6, 7, MaxRoomSide - 2, MaxRoomSide - 1, MaxRoomSide }

\* walkMap after buildLookups for the one room r on a W x H canvas
RoomWalkMap(r, W, H) ==
  [k \in 0..(W * H - 1) |-> IF k \in LookupWritesAt(r, W, H) THEN 1 ELSE 0]

RoomDistInit ==
  /\ pc = "dist"
  /\ \E w \in RoomSides, h \in RoomSides :
       \E x \in { 1, RoomCanvasW - 1 - w } :
         ROOMS = << Rect(x, 1, w, h) >>
  /\ CORRIDORS = <<>> /\ rectI = 1
  /\ mask = Null /\ maskPng = Null /\ collisionData = Null
  /\ overlayVariant = "none" /\ overlayPng = Null
  /\ walkMap = Null /\ roomIdx = Null
  /\ distW = RoomCanvasW /\ distH = RoomCanvasH
  /\ distWalk = RoomWalkMap(ROOMS[1], RoomCanvasW, RoomCanvasH)
  /\ distField = Null
  /\ distY = 0
  /\ MorphIdle
  /\ CompIdle
  /\ BlendIdle
  /\ UiIdle
  /\ GameIdle

RoomDistSpec == RoomDistInit /\ [][DistNext]_vars

(***************************************************************************)
(* Properties of run 2.                                                    *)
(***************************************************************************)
Abs(a) == IF a < 0 THEN -a ELSE a
Chebyshev(p, q, W) == Max(Abs((p % W) - (q % W)), Abs((p \div W) - (q \div W)))
SetMin(S) == CHOOSE m \in S : \A n \in S : m <= n
\* min(DIST_CAP, D(p)), D(p) the least Chebyshev distance from p to a
\* non-walkable pixel of the canvas (no such pixel: the cap)
CappedDistance(walk, p, W) ==
  LET ds == { Chebyshev(p, q, W) : q \in { k \in DOMAIN walk : walk[k] = 0 } }
  IN IF ds = {} THEN DIST_CAP ELSE Min(DIST_CAP, SetMin(ds))

\* C4: after buildDistField every non-walkable pixel holds 0 and every
\* walkable pixel holds its exact Chebyshev distance to the nearest
\* non-walkable canvas pixel, capped at DIST_CAP.
C4_DistFieldExact ==
  pc = "distDone" =>
    \A p \in DOMAIN distWalk :
      distField[p] = IF distWalk[p] = 0 THEN 0 ELSE CappedDistance(distWalk, p, distW)

\* a pixel whose nearest non-walkable pixel lies below or to the right (the
\* backward pass decides it), and one farther than the cap from every hole
C4_Witness ==
  /\ pc = "distDone"
  /\ \E p \in DOMAIN distWalk :
       /\ distField[p] = 2
       /\ \A q \in DOMAIN distWalk : distWalk[q] = 0 => q > p
  /\ \E p \in DOMAIN distWalk :
       /\ distField[p] = DIST_CAP
       /\ \E q \in DOMAIN distWalk : distWalk[q] = 0
       /\ \A q \in DOMAIN distWalk :
            distWalk[q] = 0 => Chebyshev(p, q, distW) > DIST_CAP

\* the one room of run 2b, its smaller side and its centre pixel
Room == ROOMS[1]
RoomMinSide == Min(Room.w, Room.h)
RoomCentre == (Room.y + Room.h \div 2) * distW + (Room.x + Room.w \div 2)
RoomDistDone == pc = "distDone" /\ Len(ROOMS) = 1

\* C16 as claimed: for one w x h room strictly inside the canvas the
\* distance field at the centre pixel (x + floor(w/2), y + floor(h/2)) is
\* min(w, h)/2 clamped to DIST_CAP, for every w, h >= 1.
C16_CentreIsHalfMinSide ==
  RoomDistDone =>
    IF RoomMinSide >= 2 * DIST_CAP
      THEN distField[RoomCentre] = DIST_CAP
      ELSE 2 * distField[RoomCentre] = RoomMinSide

\* C16 amended: the value at the centre pixel is ceil(min(w, h)/2) clamped
\* to DIST_CAP: min(w, h)/2 when the smaller side is even, (min(w, h)+1)/2
\* when it is odd.
C16_CentreIsCeilHalfMinSide ==
  RoomDistDone =>
    distField[RoomCentre] = Min(DIST_CAP, CeilDiv(RoomMinSide, 2))

\* the distance field of a room whose half side exceeds the cap is done
C16_Witness ==
  /\ RoomDistDone
  /\ CeilDiv(RoomMinSide, 2) > DIST_CAP
  /\ distField[RoomCentre] = DIST_CAP
  /\ Room.w # Room.h

\* C23: the rendered walls agree exactly with the collision bitmap: every
\* pixel drawWalls shades as wall (outer, mid or inner band) is non-walkable
\* in the walkability bitmap, and every walkable pixel is left as floor.
C23_WallsAgreeWithWalkMap ==
  pc = "walls" =>
    \A k \in DOMAIN canvas :
      /\ canvas[k] \in {"outer", "mid", "inner"} => distWalk[k] = 0
      /\ distWalk[k] = 1 => canvas[k] = "floor"

(***************************************************************************)
(* Run 3: the pixel-analysis variant from the downscaled content bitmap    *)
(* on: opening, small-component removal, union with the overlay            *)
(* rectangles.  The content bitmaps are all bitmaps of a small grid and    *)
(* the one-rectangle bitmaps of a larger grid; the radii and the           *)
(* component threshold are inputs.                                         *)
(***************************************************************************)
SmallGrid == <<4, 3>>
MorphW == 7
MorphH == 7
MaxRadius == 1
MaxMinSize == 2

\* bitmap of a w x h grid whose content is the rectangle [x0, x1] x [y0, y1]
RectBitmap(w, h, x0, y0, x1, y1) ==
  [k \in 0..(w * h - 1) |->
     IF x0 <= k % w /\ k % w <= x1 /\ y0 <= k \div w /\ k \div w <= y1 THEN 1 ELSE 0]

\* the overlay rectangle lists of the run, in map pixels
OverlayLists ==
  { << Rect(3, 2, 6, 5) >>, << Rect(-2, -1, 4, 4), Rect(9, 5, 8, 8) >> }

MorphParamsInit ==
  /\ pc = "morph"
  /\ erodeR \in 0..MaxRadius
  /\ dilateR \in 0..MaxRadius
  /\ minComponentSize = 0
  /\ overlayRects = <<>>
  /\ opened = Null /\ cleaned = Null /\ finalMask = Null /\ reapplied = Null
  /\ RasterIdle
  /\ DistIdle
  /\ CompIdle
  /\ BlendIdle
  /\ UiIdle
  /\ GameIdle

\* every content bitmap of the small grid
MorphInit ==
  /\ morphW = SmallGrid[1] /\ morphH = SmallGrid[2]
  /\ rawMask \in [0..(SmallGrid[1] * SmallGrid[2] - 1) -> {0, 1}]
  /\ MorphParamsInit

\* the bitmaps of the larger grid whose content is one rectangle
MorphRectInit ==
  /\ morphW = MorphW /\ morphH = MorphH
  /\ rawMask \in { RectBitmap(MorphW, MorphH, x0, y0, x1, y1) :
                     x0 \in 0..(MorphW - 1), x1 \in 0..(MorphW - 1),
                     y0 \in 0..(MorphH - 1), y1 \in 0..(MorphH - 1) }
  /\ \E k \in DOMAIN rawMask : rawMask[k] = 1
  /\ MorphParamsInit

\* step 4: morphological opening
Open ==
  /\ pc = "morph"
  /\ opened' = dilate(erode(rawMask, morphW, morphH, erodeR), morphW, morphH, dilateR)
  /\ pc' = "clean"
  /\ UNCHANGED <<morphW, morphH, rawMask, erodeR, dilateR, minComponentSize,
                 overlayRects, cleaned, finalMask, reapplied, rasterVars, distVars, compVars, blendVars, uiVars, gameVars>>

\* step 4b: remove small components
Clean ==
  /\ pc = "clean"
  /\ \E ms \in 1..MaxMinSize :
       /\ minComponentSize' = ms
       /\ cleaned' = removeSmallComponents(opened, morphW, morphH, ms)
  /\ pc' = "union"
  /\ UNCHANGED <<morphW, morphH, rawMask, erodeR, dilateR,
                 overlayRects, opened, finalMask, reapplied, rasterVars, distVars, compVars, blendVars, uiVars, gameVars>>

\* step 5: union with the overlay rectangles
Union ==
  /\ pc = "union"
  /\ \E ov \in OverlayLists :
       /\ overlayRects' = ov
       /\ finalMask' = UnionOverlay(cleaned, ov, morphW, morphH)
  /\ pc' = "morphDone"
  /\ UNCHANGED <<morphW, morphH, rawMask, erodeR, dilateR, minComponentSize,
                 opened, cleaned, reapplied, rasterVars, distVars, compVars, blendVars, uiVars, gameVars>>

\* the refiner applied again, with the same parameters, to its own output
Reapply ==
  /\ pc = "union"
  /\ reapplied' = Refine(cleaned, morphW, morphH, erodeR, dilateR, minComponentSize)
  /\ pc' = "reapplied"
  /\ UNCHANGED <<morphW, morphH, rawMask, erodeR, dilateR, minComponentSize,
                 overlayRects, opened, cleaned, finalMask, rasterVars, distVars, compVars, blendVars, uiVars, gameVars>>

MorphNext == Open \/ Clean \/ Union \/ Reapply

MorphSpec == MorphInit /\ [][MorphNext]_vars

MorphWideSpec == (MorphInit \/ MorphRectInit) /\ [][MorphNext]_vars

(***************************************************************************)
(* Properties of run 3.                                                    *)
(***************************************************************************)
HasContent(b) == \E k \in DOMAIN b : b[k] = 1
\* cells a and b of a grid of width w share an edge
Adjacent4(a, b, w) == Abs((a % w) - (b % w)) + Abs((a \div w) - (b \div w)) = 1
\* cells a and b touch at a corner only
AdjacentDiagonal(a, b, w) == Abs((a % w) - (b % w)) = 1 /\ Abs((a \div w) - (b \div w)) = 1

\* the content cells of b reachable from the cells of S through shared edges
RECURSIVE Reach4(_, _, _)
Reach4(b, S, w) ==
  LET nxt == S \cup { k \in DOMAIN b : b[k] = 1 /\ \E c \in S : Adjacent4(c, k, w) }
  IN IF nxt = S THEN S ELSE Reach4(b, nxt, w)
\* the 4-connected component of content cell k
Component4(b, k, w) == Reach4(b, {k}, w)

\* cell k of the mask grid lies in the floor/ceil footprint of rectangle r
InFootprint(r, k, w, h) ==
  LET mx == k % w
      my == k \div w
  IN /\ 0 <= mx /\ mx < w /\ 0 <= my /\ my < h
     /\ FloorDiv(r.x, MASK_SCALE) <= mx /\ mx < CeilDiv(r.x + r.w, MASK_SCALE)
     /\ FloorDiv(r.y, MASK_SCALE) <= my /\ my < CeilDiv(r.y + r.h, MASK_SCALE)
InSomeFootprint(k) ==
  \E j \in 1..Len(overlayRects) : InFootprint(overlayRects[j], k, morphW, morphH)

\* C6 as claimed: with r_d >= r_e the refiner's output is a subset of its
\* input: no cell that is non-content in the raw mask is content after
\* erode, dilate and small-component removal.
C6_OutputSubsetOfInput ==
  (cleaned # Null /\ dilateR >= erodeR) => BitmapSubset(cleaned, rawMask)

\* C6 amended: the output is a subset of the input when r_d <= r_e; when
\* r_d >= r_e it is a subset of the input dilated by r_d - r_e.
C6_OutputSubsetOfDilatedInput ==
  cleaned # Null =>
    /\ dilateR <= erodeR => BitmapSubset(cleaned, rawMask)
    /\ dilateR >= erodeR =>
         BitmapSubset(cleaned,
                      [k \in DOMAIN rawMask |->
                         IF \E q \in DOMAIN rawMask :
                              /\ rawMask[q] = 1
                              /\ Chebyshev(k, q, morphW) <= dilateR - erodeR
                           THEN 1 ELSE 0])

C6_Witness ==
  /\ cleaned # Null /\ erodeR = 1 /\ dilateR = 1
  /\ HasContent(cleaned)
  /\ \E k \in DOMAIN rawMask : rawMask[k] = 1 /\ cleaned[k] = 0

\* C7: the final mask is the refined bitmap OR'd with the footprints of the
\* overlay rectangles: a cell in a footprint is walkable whatever the refined
\* bitmap holds, a cell outside all footprints is walkable exactly when it
\* survived the refiner.
C7_FinalIsRefinedOrOverlay ==
  finalMask # Null =>
    \A k \in DOMAIN finalMask :
      /\ InSomeFootprint(k) => finalMask[k] = 1
      /\ ~InSomeFootprint(k) => (finalMask[k] = 1 <=> cleaned[k] = 1)

C7_Witness ==
  /\ finalMask # Null
  /\ \E k \in DOMAIN finalMask : InSomeFootprint(k) /\ cleaned[k] = 0 /\ finalMask[k] = 1
  /\ \E k \in DOMAIN finalMask : ~InSomeFootprint(k) /\ cleaned[k] = 1
  /\ \E k \in DOMAIN finalMask : ~InSomeFootprint(k) /\ cleaned[k] = 0

\* C8: removeSmallComponents keeps exactly the cells of the 4-connected
\* components of its input that have at least minSize cells; smaller
\* components are cleared whole, cells that touch only at a corner are in
\* different components, and no 0 becomes 1.
C8_KeepsExactlyLargeComponents ==
  cleaned # Null =>
    \A k \in DOMAIN opened :
      cleaned[k] = 1
        <=> /\ opened[k] = 1
            /\ Cardinality(Component4(opened, k, morphW)) >= minComponentSize

\* a one-cell component is cleared next to a kept component it touches at a
\* corner only
C8_Witness ==
  /\ cleaned # Null /\ minComponentSize = 2
  /\ \E a \in DOMAIN opened, b \in DOMAIN opened :
       /\ AdjacentDiagonal(a, b, morphW)
       /\ opened[a] = 1 /\ cleaned[a] = 0
       /\ opened[b] = 1 /\ cleaned[b] = 1

\* C9: dilate(erode(X, r_e), r_d) is a subset of dilate(X, r_d).
C9_OpeningSubsetOfDilation ==
  opened # Null => BitmapSubset(opened, dilate(rawMask, morphW, morphH, dilateR))

C9_Witness ==
  /\ opened # Null /\ erodeR = 1 /\ dilateR = 1
  /\ HasContent(opened)
  /\ opened # dilate(rawMask, morphW, morphH, dilateR)

\* every content cell of b is farther than the larger radius from the edge
ContentInterior(b) ==
  \A k \in DOMAIN b :
    b[k] = 1 =>
      Min(Min(k % morphW, morphW - 1 - (k % morphW)),
          Min(k \div morphW, morphH - 1 - (k \div morphW))) > Max(erodeR, dilateR)

\* C10 as claimed: the refiner applied with the same parameters to its own
\* output returns it unchanged, when the content stays farther than the
\* radius from the canvas edge.
C10_RefinerIdempotent ==
  (pc = "reapplied" /\ ContentInterior(cleaned)) => reapplied = cleaned

\* C10 amended: the refiner is idempotent when r_d = r_e (at the canvas edge
\* too); when r_d > r_e applying it again keeps every cell of the output and
\* may add cells.
C10_IdempotentForEqualRadii ==
  pc = "reapplied" =>
    /\ dilateR = erodeR => reapplied = cleaned
    /\ dilateR > erodeR => BitmapSubset(cleaned, reapplied)

C10_Witness ==
  /\ pc = "reapplied" /\ erodeR = 1 /\ dilateR = 1
  /\ HasContent(cleaned)
  /\ cleaned # rawMask
  /\ reapplied = cleaned

(***************************************************************************)
(* Run 4: a run of the sprite-layer compositor (layered variant or         *)
(* room-placement variant) over a stack of six layers, for every set of    *)
(* source files present and every --include-optional list.                 *)
(***************************************************************************)
CompInit ==
  /\ pc = "comp"
  /\ \/ /\ compVariant = "layered"
        /\ includeOptional \in SUBSET OptionalIds
     \/ /\ compVariant = "rooms"
        /\ includeOptional = {}
  /\ \E c \in InteriorCrops, s \in InteriorScales : LAYER_STACK = LayerStackWith(c, s)
  /\ existingFiles \in SUBSET SourceFiles
  /\ stageIndex = 0
  /\ layerI = 1
  /\ canvas = createCanvas
  /\ renderedLayers = << >>
  /\ skeldMapPng = Null
  /\ RasterIdle
  /\ DistIdle
  /\ MorphIdle
  /\ BlendIdle
  /\ UiIdle
  /\ GameIdle

\* (variant of the layer loop body that cannot go on when the file is missing)
LayerStepAbortOnMissing ==
  /\ pc = "comp"
  /\ stageIndex < NumStages
  /\ layerI <= Len(ActiveLayers(stageIndex))
  /\ LET layer == ActiveLayers(stageIndex)[layerI]
         result == RenderResult(layer)
     IN IF ~fsExistsSync(layer.file)
          THEN /\ pc' = "aborted"
               /\ UNCHANGED << canvas, renderedLayers >>
          ELSE /\ pc' = pc
               /\ IF result.null
                    THEN UNCHANGED << canvas, renderedLayers >>
                    ELSE /\ canvas' = compositeOver(canvas, result.image, layer.x, layer.y)
                         /\ renderedLayers' =
                              Append(renderedLayers, [layer |-> layer, rect |-> result.rect])
  /\ layerI' = layerI + 1
  /\ UNCHANGED << compVariant, LAYER_STACK, existingFiles, includeOptional, stageIndex,
                  skeldMapPng >>
  /\ UNCHANGED << rasterVars, distVars, morphVars, blendVars, uiVars, gameVars >>

\* one iteration of the layer loop: render, skip on null, composite, record
LayerStep ==
  /\ pc = "comp"
  /\ stageIndex < NumStages
  /\ layerI <= Len(ActiveLayers(stageIndex))
  /\ LET layer == ActiveLayers(stageIndex)[layerI]
         result == RenderResult(layer)
     IN IF result.null
          THEN UNCHANGED << canvas, renderedLayers >>
          ELSE /\ canvas' = compositeOver(canvas, result.image, layer.x, layer.y)
               /\ renderedLayers' = Append(renderedLayers, [layer |-> layer, rect |-> result.rect])
  /\ layerI' = layerI + 1
  /\ UNCHANGED << pc, compVariant, LAYER_STACK, existingFiles, includeOptional, stageIndex,
                  skeldMapPng >>
  /\ UNCHANGED << rasterVars, distVars, morphVars, blendVars, uiVars, gameVars >>

\* the end of a stage's layer loop: on to the next stage
StageEnd ==
  /\ pc = "comp"
  /\ stageIndex < NumStages
  /\ layerI > Len(ActiveLayers(stageIndex))
  /\ stageIndex' = stageIndex + 1
  /\ layerI' = 1
  /\ UNCHANGED << pc, compVariant, LAYER_STACK, existingFiles, includeOptional, canvas,
                  renderedLayers, skeldMapPng >>
  /\ UNCHANGED << rasterVars, distVars, morphVars, blendVars, uiVars, gameVars >>

\* after the last stage: write skeld-map.png
WriteSkeldMap ==
  /\ pc = "comp"
  /\ stageIndex = NumStages
  /\ skeldMapPng' = canvas
  /\ pc' = "compDone"
  /\ UNCHANGED << compVariant, LAYER_STACK, existingFiles, includeOptional, stageIndex, layerI,
                  canvas, renderedLayers >>
  /\ UNCHANGED << rasterVars, distVars, morphVars, blendVars, uiVars, gameVars >>

CompNext == LayerStep \/ StageEnd \/ WriteSkeldMap

CompSpec == CompInit /\ [][CompNext]_vars

\* the script runs to its end: no step of main waits for anything.  This is
\* WF_vars(CompNext) with ENABLED <<CompNext>>_vars written out: before the
\* write one of the three steps can always be taken (pc = "comp").
CompFairSpec == CompSpec /\ ([]<>(pc # "comp") \/ []<><<CompNext>>_vars)

(***************************************************************************)
(* Run 5: the same compositors over a stack whose only layer is a 4 x 4    *)
(* fragment with one pure-magenta pixel, uncropped, at several places and  *)
(* scales.                                                                 *)
(***************************************************************************)
FragmentPlaces == { << 0, 0 >>, << 3, 2 >>, << 9, 5 >>, << -1, -2 >> }
FragmentScales == { << 1, 1 >>, << 2, 1 >>, << 1, 2 >> }
FragmentStack(file, at, s) ==
  [ base |-> << >>, walls |-> << >>,
    roomInteriors |-> << Layer("fragment", "roomInteriors", file, at[1], at[2], s,
                               FALSE, NoCrop, TRUE) >>,
    foreground |-> << >>, optional |-> << >> ]

FragInit ==
  /\ pc = "comp"
  /\ compVariant \in {"layered", "rooms"}
  /\ includeOptional = {}
  /\ \E f \in FragmentFiles, at \in FragmentPlaces, s \in FragmentScales :
       /\ LAYER_STACK = FragmentStack(f, at, s)
       /\ existingFiles = {f}
  /\ stageIndex = 0
  /\ layerI = 1
  /\ canvas = createCanvas
  /\ renderedLayers = << >>
  /\ skeldMapPng = Null
  /\ RasterIdle
  /\ DistIdle
  /\ MorphIdle
  /\ BlendIdle
  /\ UiIdle
  /\ GameIdle

FragSpec == FragInit /\ [][CompNext]_vars

(***************************************************************************)
(* Run 6: one call of compositeOver, for destination images of 2 x 2       *)
(* pixels and source images of 2 x 1 pixels over transparent, translucent  *)
(* and opaque pixels, at offsets inside, across and off the destination.   *)
(***************************************************************************)
DstPixels == { << 9, 9, 9, 0 >>, << 50, 60, 70, 255 >>, << 100, 0, 0, 128 >> }
SrcPixels == { << 7, 7, 7, 0 >>, << 200, 10, 10, 255 >>, << 10, 200, 10, 128 >> }
Offsets == -1..2

BlendInit ==
  /\ pc = "blend"
  /\ \E d \in [0..3 -> DstPixels] : blendDst = Image(2, 2, d)
  /\ \E p \in [0..1 -> SrcPixels] : blendSrc = Image(2, 1, p)
  /\ blendOx \in Offsets
  /\ blendOy \in Offsets
  /\ RasterIdle
  /\ DistIdle
  /\ MorphIdle
  /\ CompIdle
  /\ UiIdle
  /\ GameIdle

CompositeOver ==
  /\ pc = "blend"
  /\ blendDst' = compositeOver(blendDst, blendSrc, blendOx, blendOy)
  /\ pc' = "blended"
  /\ UNCHANGED << blendSrc, blendOx, blendOy >>
  /\ UNCHANGED << rasterVars, distVars, morphVars, compVars, uiVars, gameVars >>

BlendNext == CompositeOver

BlendSpec == BlendInit /\ [][BlendNext]_vars

(***************************************************************************)
(* Properties of run 4.                                                    *)
(***************************************************************************)
\* every declared layer, in stage order and declaration order within a stage
AllLayers == ConcatStages(1)
\* position of the layer named id in that order
LayerRank(id) == CHOOSE i \in 1..Len(AllLayers) : AllLayers[i].id = id
CompDone == pc = "compDone"
\* the pixel the i-th composited layer places on canvas pixel k (transparent
\* where its image does not reach)
PlacedPixel(i, k) ==
  LET layer == renderedLayers[i].layer
      img == RenderResult(layer).image
      sx == (k % canvas.width) - layer.x
      sy == (k \div canvas.width) - layer.y
  IN IF sx >= 0 /\ sx < img.width /\ sy >= 0 /\ sy < img.height
       THEN img.data[sy * img.width + sx]
       ELSE << 0, 0, 0, 0 >>

AtLayer == pc = "comp" /\ stageIndex < NumStages /\ layerI <= Len(ActiveLayers(stageIndex))
CurrentLayer == ActiveLayers(stageIndex)[layerI]
RenderedIds == { renderedLayers[i].layer.id : i \in 1..Len(renderedLayers) }
\* the layers the run goes through, over all its stages
RunLayers ==
  UNION { { ActiveLayers(n)[i] : i \in 1..Len(ActiveLayers(n)) } : n \in 0..(NumStages - 1) }

\* C18 (step): the iteration for a layer whose file is missing touches
\* neither the canvas nor the record of rendered layers, and the run goes on.
C18_MissingLayerStep ==
  (AtLayer /\ ~fsExistsSync(CurrentLayer.file)) =>
    /\ canvas' = canvas
    /\ renderedLayers' = renderedLayers
    /\ pc' = "comp"
    /\ layerI' = layerI + 1

\* C18 (state): the run is never aborted nor stuck before the write, no
\* layer with a missing file is composited, the composited layers are in
\* the order of the stack, and when skeld-map.png is written every other
\* active layer that renders to an image has been composited.
C18_RunGoesOn ==
  /\ pc \in {"comp", "compDone"}
  /\ pc = "comp" =>
       \/ AtLayer
       \/ stageIndex < NumStages /\ layerI = Len(ActiveLayers(stageIndex)) + 1
       \/ stageIndex = NumStages
  /\ \A i \in 1..Len(renderedLayers) : fsExistsSync(renderedLayers[i].layer.file)
  /\ \A i, j \in 1..Len(renderedLayers) :
       i < j => LayerRank(renderedLayers[i].layer.id) < LayerRank(renderedLayers[j].layer.id)
  /\ CompDone =>
       /\ skeldMapPng = canvas
       /\ \A l \in RunLayers :
            (fsExistsSync(l.file) /\ ~RenderResult(l).null) => l.id \in RenderedIds

\* C18: for every set of missing source files, the base map's among them,
\* the run does not abort: a layer whose file is missing is skipped without
\* touching the canvas, the other active layers are composited, and the run
\* reaches the step that writes skeld-map.png.
C18_MissingFilesAreSkipped ==
  /\ [][C18_MissingLayerStep]_vars
  /\ []C18_RunGoesOn
  /\ <>CompDone

\* the map is written with the base map and another active layer's file
\* missing, and a later layer composited
C18_Witness ==
  /\ CompDone
  /\ "base" \notin existingFiles /\ "weapons" \notin existingFiles
  /\ "cafeteriaWalls" \in RenderedIds
  /\ "baseMap" \notin RenderedIds /\ "weapons" \notin RenderedIds
  /\ skeldMapPng # createCanvas

\* a degenerate fragment: the crop region has no area once clamped to the
\* source, or the scaled width or height rounds below one pixel
ClampedCrop(layer) == cropPng(loadPng(layer.file), layer.crop)
Degenerate(layer) ==
  \/ layer.hasCrop /\ ClampedCrop(layer).width * ClampedCrop(layer).height = 0
  \/ RoundDiv(CropSteps(layer).width * layer.scale[1], layer.scale[2]) < 1
  \/ RoundDiv(CropSteps(layer).height * layer.scale[1], layer.scale[2]) < 1

\* C19: a degenerate fragment is always skipped: when the layer loop comes
\* to a layer whose file is there and whose crop region has zero area after
\* clamping, or whose scaled width or height rounds below one pixel, the
\* render result is null, and no such layer is ever recorded as rendered,
\* whatever the scale, 1 included.
C19_DegenerateAlwaysSkipped ==
  /\ (AtLayer /\ fsExistsSync(CurrentLayer.file) /\ Degenerate(CurrentLayer)) =>
       RenderResult(CurrentLayer).null
  /\ \A i \in 1..Len(renderedLayers) : ~Degenerate(renderedLayers[i].layer)

\* the layers of the stack that are disabled by default
DisabledByDefault == { AllLayers[i] : i \in { j \in 1..Len(AllLayers) : ~AllLayers[j].enabled } }

\* C20: a layer that is disabled by default is rendered if and only if its
\* id is in the --include-optional allow-list: when the layered compositor
\* has written the map, each such layer whose file is there and renders to
\* an image is among the rendered layers exactly when its id is in the
\* list; so is dropshipTop (stage foreground) when the list names it.
C20_DisabledRenderedIffIncluded ==
  (CompDone /\ compVariant = "layered") =>
    \A l \in DisabledByDefault :
      (fsExistsSync(l.file) /\ ~renderLayer(l).null) =>
        (l.id \in RenderedIds <=> l.id \in includeOptional)

(***************************************************************************)
(* Properties of run 5.                                                    *)
(***************************************************************************)
\* the fragment as chroma-key removal would leave it: the magenta pixel's
\* alpha zeroed, every other pixel as loaded
ChromaKeyed(file) ==
  LET loaded == loadPng(file)
      k == FragmentKey[file]
  IN Image(loaded.width, loaded.height,
           [j \in DOMAIN loaded.data |->
              IF j = k THEN << loaded.data[j][1], loaded.data[j][2], loaded.data[j][3], 0 >>
              ELSE loaded.data[j]])

\* C21: chroma-key removal comes between the source crop and the auto-crop:
\* for a 4 x 4 fragment with one pure-magenta pixel and all other pixels
\* opaque black, the image that reaches scaling has exactly that pixel's
\* alpha zeroed and the others unchanged, and an unscaled fragment leaves
\* the canvas as it was under the magenta pixel.
C21_ChromaKeyBeforeAutoCrop ==
  /\ (AtLayer /\ CurrentLayer.file \in FragmentFiles) =>
       CropSteps(CurrentLayer) = ChromaKeyed(CurrentLayer.file)
  /\ \A i \in 1..Len(renderedLayers) :
       LET l == renderedLayers[i].layer
           k == FragmentKey[l.file]
           x == l.x + (k % 4)
           y == l.y + (k \div 4)
       IN (l.scale = << 1, 1 >> /\ x >= 0 /\ x < MAP_W /\ y >= 0 /\ y < MAP_H) =>
            canvas.data[y * MAP_W + x] = createCanvas.data[y * MAP_W + x]

(***************************************************************************)
(* Properties of run 6.                                                    *)
(***************************************************************************)
\* the source pixels lying over destination pixel k (none or one)
SourceOver(k) ==
  LET sx == (k % blendDst.width) - blendOx
      sy == (k \div blendDst.width) - blendOy
  IN IF sx >= 0 /\ sx < blendSrc.width /\ sy >= 0 /\ sy < blendSrc.height
       THEN { blendSrc.data[sy * blendSrc.width + sx] }
       ELSE {}

\* C22 (step): a call of compositeOver keeps the destination's size and
\* changes a destination pixel only under a source pixel of alpha > 0;
\* every other pixel, also one that is fully transparent under a fully
\* transparent source pixel, keeps its four bytes.
C22_CallChangesOnlyCovered ==
  pc = "blend" =>
    /\ blendDst'.width = blendDst.width /\ blendDst'.height = blendDst.height
    /\ DOMAIN blendDst'.data = DOMAIN blendDst.data
    /\ \A k \in DOMAIN blendDst.data :
         blendDst'.data[k] # blendDst.data[k] => \E s \in SourceOver(k) : s[4] > 0

\* C22: compositeOver changes a destination pixel only if it lies inside
\* dst and under a source pixel whose alpha is greater than 0, every other
\* destination pixel is left byte for byte unchanged, and the divisor outA
\* of a pixel that is blended is never 0.
C22_CompositeOverFrame ==
  /\ [][C22_CallChangesOnlyCovered]_vars
  /\ [](\A k \in DOMAIN blendDst.data : \A s \in SourceOver(k) :
          s[4] > 0 => 255 * s[4] + blendDst.data[k][4] * (255 - s[4]) > 0)

\* a call was made in which a fully transparent destination pixel lay
\* under a fully transparent source pixel and kept its bytes, and the
\* destination pixel next to it was replaced by an opaque source pixel
C22_Witness ==
  /\ pc = "blended"
  /\ blendOx = 0 /\ blendOy = 0
  /\ blendSrc.data[0] = << 7, 7, 7, 0 >>
  /\ blendDst.data[0] = << 9, 9, 9, 0 >>
  /\ blendSrc.data[1] = << 200, 10, 10, 255 >>
  /\ blendDst.data[1] = << 200, 10, 10, 255 >>

(***************************************************************************)
(* Run 7: FixWiringMinigame, for every shuffle of the right nodes and      *)
(* every sequence of clicks on left and right nodes.                       *)
(***************************************************************************)
NODE_COUNT == 4
WIRE_COLORS == [i \in 0..3 |-> << "red", "blue", "yellow", "magenta" >>[i + 1]]
Nodes == 0..(NODE_COUNT - 1)
\* the results shuffle([...WIRE_COLORS]) can give: every permutation
Shuffles == { [i \in Nodes |-> WIRE_COLORS[q[i]]] :
                q \in { f \in [Nodes -> Nodes] : \A a, b \in Nodes : f[a] = f[b] => a = b } }

allConnected(conn) == \A i \in DOMAIN conn : conn[i] >= 0

\* (variant of isCorrect that asks for some wire to match, not every wire)
isCorrectSomeWire(conn) ==
  allConnected(conn) /\ \E i \in DOMAIN conn : rightColors[conn[i]] = WIRE_COLORS[i]

isCorrect(conn) ==
  allConnected(conn) /\ \A i \in DOMAIN conn : rightColors[conn[i]] = WIRE_COLORS[i]

\* the paragraph "Wrong connection - try again." is rendered
WrongMessageShown == allConnected(connections) /\ ~isCorrect(connections)

\* useEffect(() => { if (isCorrect) onComplete(); }, [isCorrect, onComplete])
\* after the render that follows a state update from conn to next: the
\* effect runs when isCorrect changed, and may run when it did not (the
\* parent may pass a new onComplete with any render)
CompleteEffect(conn, next) ==
  IF ~isCorrect(next) THEN {FALSE}
  ELSE IF ~isCorrect(conn) THEN {TRUE}
  ELSE {TRUE, FALSE}

WiringInit ==
  /\ pc = "wiring"
  /\ nodeCount = NODE_COUNT
  /\ connections = [i \in Nodes |-> -1]
  /\ selectedLeft = -1
  /\ rightColors \in Shuffles
  /\ onCompleteInvoked = FALSE
  /\ dragData = << >>
  /\ RasterIdle
  /\ DistIdle
  /\ MorphIdle
  /\ CompIdle
  /\ BlendIdle
  /\ GameIdle

handleLeftClick ==
  /\ pc = "wiring"
  /\ \E index \in Nodes :
       selectedLeft' = IF selectedLeft = index THEN -1 ELSE index
  /\ onCompleteInvoked' \in CompleteEffect(connections, connections)
  /\ UNCHANGED << pc, nodeCount, connections, rightColors, dragData >>
  /\ UNCHANGED << rasterVars, distVars, morphVars, compVars, blendVars, gameVars >>

handleRightClick ==
  /\ pc = "wiring"
  /\ selectedLeft # -1
  /\ \E rightIndex \in Nodes :
       /\ connections' = [connections EXCEPT ![selectedLeft] = rightIndex]
       /\ onCompleteInvoked' \in CompleteEffect(connections, connections')
  /\ selectedLeft' = -1
  /\ UNCHANGED << pc, nodeCount, rightColors, dragData >>
  /\ UNCHANGED << rasterVars, distVars, morphVars, compVars, blendVars, gameVars >>

WiringNext == handleLeftClick \/ handleRightClick

WiringSpec == WiringInit /\ [][WiringNext]_vars

\* every left wire i is connected to a right node of colour WIRE_COLORS[i]
AllWiresMatch ==
  \A i \in Nodes :
    connections[i] \in Nodes /\ rightColors[connections[i]] = WIRE_COLORS[i]

\* C25: onComplete is invoked only in a state where all four left wires are
\* connected, each to a right node of its own colour, never while a wire is
\* unconnected or on another colour; and the wrong-connection message is
\* shown exactly when all wires are connected and the match is not correct.
C25_CompleteOnlyWhenAllMatch ==
  /\ onCompleteInvoked => AllWiresMatch
  /\ WrongMessageShown <=> ((\A i \in Nodes : connections[i] # -1) /\ ~AllWiresMatch)

\* onComplete has been invoked with the right nodes shuffled so that no
\* colour is at its own height
C25_Witness ==
  /\ onCompleteInvoked
  /\ \A i \in Nodes : rightColors[i] # WIRE_COLORS[i]

(***************************************************************************)
(* Run 8: the Skeld game loop (SkeldMapTest) on a map just large enough    *)
(* for the player's hitbox to move: key presses, animation frames and the  *)
(* load event of collision-mask.png, in every order, for masks that are    *)
(* walkable but for a notch of one or two cells.                           *)
(***************************************************************************)
GameMapW == 48
GameMapH == 60
GameMaskW == CeilDiv(GameMapW, MASK_SCALE)
GameMaskH == CeilDiv(GameMapH, MASK_SCALE)
HIT_HW == 18
HIT_HH == 24
SPEED == 3
\* the spawn position (SPAWN_X, SPAWN_Y), scaled to this map
Spawn == [x |-> 24, y |-> 30]
\* the keys pressed in this run
PressedKeys == { "w", "a", "s", "arrowright" }
\* the non-walkable mask cells <<mx, my>> of the masks of this run
Notches == { {}, { << 0, 0 >> }, { << 3, 3 >> }, { << 3, 3 >>, << 4, 3 >> }, { << 11, 14 >> } }
\* collision-mask.png with the cells of notch transparent, the others opaque white
NotchedMaskPng(notch) ==
  [b \in 0..(4 * GameMaskW * GameMaskH - 1) |->
     IF << (b \div 4) % GameMaskW, (b \div 4) \div GameMaskW >> \in notch THEN 0 ELSE 255]

canMoveTo(data, cx, cy) ==
  /\ isWalkableAt(data, GameMaskW, GameMaskH, cx, cy)
  /\ isWalkableAt(data, GameMaskW, GameMaskH, cx - HIT_HW, cy - HIT_HH)
  /\ isWalkableAt(data, GameMaskW, GameMaskH, cx + HIT_HW, cy - HIT_HH)
  /\ isWalkableAt(data, GameMaskW, GameMaskH, cx - HIT_HW, cy + HIT_HH)
  /\ isWalkableAt(data, GameMaskW, GameMaskH, cx + HIT_HW, cy + HIT_HH)
  /\ isWalkableAt(data, GameMaskW, GameMaskH, cx, cy - HIT_HH)
  /\ isWalkableAt(data, GameMaskW, GameMaskH, cx, cy + HIT_HH)
  /\ isWalkableAt(data, GameMaskW, GameMaskH, cx - HIT_HW, cy)
  /\ isWalkableAt(data, GameMaskW, GameMaskH, cx + HIT_HW, cy)

\* the position one animation frame leaves, X and Y applied independently
gameLoop(data, keys, pos) ==
  LET dy == (IF "w" \in keys \/ "arrowup" \in keys THEN -SPEED ELSE 0)
            + (IF "s" \in keys \/ "arrowdown" \in keys THEN SPEED ELSE 0)
      dx == (IF "a" \in keys \/ "arrowleft" \in keys THEN -SPEED ELSE 0)
            + (IF "d" \in keys \/ "arrowright" \in keys THEN SPEED ELSE 0)
      nextX == Max(HIT_HW, Min(GameMapW - HIT_HW, pos.x + dx))
      x == IF dx # 0 /\ canMoveTo(data, nextX, pos.y) THEN nextX ELSE pos.x
      nextY == Max(HIT_HH, Min(GameMapH - HIT_HH, pos.y + dy))
      y == IF dy # 0 /\ canMoveTo(data, x, nextY) THEN nextY ELSE pos.y
  IN [x |-> x, y |-> y]

GameInit ==
  /\ pc = "game"
  /\ ROOMS = <<>> /\ CORRIDORS = <<>> /\ rectI = 1
  /\ mask = Null
  /\ maskPng \in { NotchedMaskPng(n) : n \in Notches }
  /\ collisionData = Null
  /\ overlayVariant = "none" /\ overlayPng = Null
  /\ walkMap = Null /\ roomIdx = Null
  /\ keysRef = {}
  /\ posRef = Spawn
  /\ DistIdle
  /\ MorphIdle
  /\ CompIdle
  /\ BlendIdle
  /\ UiIdle

handleKeyDown ==
  /\ pc = "game"
  /\ \E key \in PressedKeys : keysRef' = keysRef \cup {key}
  /\ UNCHANGED << pc, posRef, rasterVars, distVars, morphVars, compVars, blendVars, uiVars >>

handleKeyUp ==
  /\ pc = "game"
  /\ \E key \in PressedKeys : keysRef' = keysRef \ {key}
  /\ UNCHANGED << pc, posRef, rasterVars, distVars, morphVars, compVars, blendVars, uiVars >>

\* one animation frame
GameLoop ==
  /\ pc = "game"
  /\ posRef' = gameLoop(collisionData, keysRef, posRef)
  /\ UNCHANGED << pc, keysRef, rasterVars, distVars, morphVars, compVars, blendVars, uiVars >>

\* img.onload of the collision mask, whenever the image arrives
CollisionMaskOnload ==
  /\ pc = "game"
  /\ collisionData = Null
  /\ collisionData' = LoadImageData(maskPng)
  /\ UNCHANGED << pc, ROOMS, CORRIDORS, rectI, mask, maskPng, overlayVariant, overlayPng,
                  walkMap, roomIdx >>
  /\ UNCHANGED << gameVars, distVars, morphVars, compVars, blendVars, uiVars >>

GameNext == handleKeyDown \/ handleKeyUp \/ GameLoop \/ CollisionMaskOnload

GameSpec == GameInit /\ [][GameNext]_vars

\* the map pixels of the player hitbox centred at (cx, cy)
HitboxPixels(cx, cy) ==
  { << x, y >> : x \in (cx - HIT_HW)..(cx + HIT_HW), y \in (cy - HIT_HH)..(cy + HIT_HH) }
MaskLoaded == collisionData # Null

\* C26: whenever canMoveTo(cx, cy) returns true with the collision mask
\* loaded, the player hitbox is entirely on walkable tiles: every map pixel
\* of [cx - HIT_HW, cx + HIT_HW] x [cy - HIT_HH, cy + HIT_HH] maps to a
\* walkable mask cell, for every mask.
C26_CanMoveToMeansHitboxWalkable ==
  (MaskLoaded /\ canMoveTo(collisionData, posRef.x, posRef.y)) =>
    \A p \in HitboxPixels(posRef.x, posRef.y) :
      isWalkableAt(collisionData, GameMaskW, GameMaskH, p[1], p[2])

\* C27: in every reachable state in which the collision mask has finished
\* loading, the player's position satisfies canMoveTo, for every
\* interleaving of key presses, animation frames and the load event.
C27_PositionAlwaysWalkable ==
  MaskLoaded => canMoveTo(collisionData, posRef.x, posRef.y)

\* the map pixels inside at least one room or corridor rectangle
DeclaredFloor ==
  { p \in MapPixels : \E i \in 1..Len(ALL_WALKABLE) : InRect(ALL_WALKABLE[i], p[1], p[2]) }

\* C28: the collision mask never blocks declared floor: for every map pixel
\* inside the canvas that lies inside at least one room or corridor
\* rectangle, isWalkable on the loaded rectangle-based mask returns true.
C28_MaskNeverBlocksDeclaredFloor ==
  pc = "done" =>
    \A p \in DeclaredFloor : isWalkable(collisionData, p[1], p[2])

\* the mask is loaded, a rectangle ends inside a mask cell, and the pixels
\* of that last, partly covered cell are declared floor
C28_Witness ==
  /\ pc = "done"
  /\ collisionData # Null
  /\ \E i \in 1..Len(ALL_WALKABLE) :
       LET r == ALL_WALKABLE[i]
       IN /\ (r.x + r.w) % MASK_SCALE # 0
          /\ << r.x + r.w - 1, r.y >> \in DeclaredFloor
          /\ ~ InRect(r, r.x + r.w, r.y)
          /\ r.x + r.w < MAP_W
          /\ isWalkable(collisionData, r.x + r.w, r.y)

(***************************************************************************)
(* Run 9: run 1 with named room rectangles (NamedRect), for the runtime    *)
(* room detection of SkeldMapTest.  The rasterizers read only x, y, w, h.  *)
(***************************************************************************)
NamedRect(name, r) == [name |-> name, x |-> r.x, y |-> r.y, w |-> r.w, h |-> r.h]
\* one room, or two rooms of the same name (as the two Cafeteria
\* rectangles) or of different names (as Security and Electrical)
NamedRoomLists ==
  { << NamedRect("Cafeteria", r) >> : r \in Rects }
    \cup { << NamedRect("Cafeteria", r), NamedRect(n, q) >> :
              r \in Rects, q \in Rects, n \in { "Cafeteria", "Security" } }
\* the value of getCurrentRoom when no room matches (null in the source)
NoRoom == "null"

\* the name of the first room whose rectangle, edges included, holds (px, py)
getCurrentRoom(px, py) ==
  LET hits == { i \in 1..Len(ROOMS) :
                  /\ px >= ROOMS[i].x /\ px <= ROOMS[i].x + ROOMS[i].w
                  /\ py >= ROOMS[i].y /\ py <= ROOMS[i].y + ROOMS[i].h }
  IN IF hits = {} THEN NoRoom ELSE ROOMS[LeastOf(hits)].name

DetectInit ==
  /\ ROOMS \in NamedRoomLists
  /\ CORRIDORS \in CorridorLists
  /\ pc = "rasterize"
  /\ rectI = 1
  /\ mask = ZeroMask(MASK_W * MASK_H)
  /\ maskPng = Null
  /\ overlayVariant = "none"
  /\ overlayPng = Null
  /\ collisionData = Null
  /\ walkMap = FreshLookups.walkMap
  /\ roomIdx = FreshLookups.roomIdx
  /\ DistIdle
  /\ MorphIdle
  /\ CompIdle
  /\ BlendIdle
  /\ UiIdle
  /\ GameIdle

DetectSpec == DetectInit /\ [][Next]_vars

\* C29: runtime room detection is aligned with the generator's room
\* ownership: for every integer map point inside the canvas, getCurrentRoom
\* returns the name of the room buildLookups recorded in roomIdx when that
\* is >= 0, and null exactly when roomIdx is -1 (corridor) or -2
\* (non-walkable), on rectangle edges and where two differently named
\* rooms overlap too.
C29_RoomDetectionAligned ==
  LookupsBuilt =>
    \A p \in MapPixels :
      LET ri == roomIdx[p[2] * MAP_W + p[1]]
      IN getCurrentRoom(p[1], p[2]) = (IF ri >= 0 THEN ROOMS[ri + 1].name ELSE NoRoom)

(***************************************************************************)
(* Run 10: ElectricalPanelContent / ElectricalPanel (the same handlers):   *)
(* attributes dragged from the left column and dropped on the right slots. *)
(* A payload is a string, modelled as its sequence of characters; the      *)
(* empty sequence is also what getData returns when the drag carries no    *)
(* data under DRAG_DATA_KEY.                                               *)
(***************************************************************************)
MaxNodeCount == 3
DigitChars == << "0", "1", "2", "3", "4", "5", "6", "7", "8", "9" >>
Digits == { DigitChars[k] : k \in 1..Len(DigitChars) }
DigitValue(c) == (CHOOSE k \in 1..Len(DigitChars) : DigitChars[k] = c) - 1

RECURSIVE StringOf(_)
\* String(index) for an index >= 0
StringOf(index) ==
  IF index < Len(DigitChars) THEN << DigitChars[index + 1] >>
  ELSE Append(StringOf(index \div Len(DigitChars)), DigitChars[(index % Len(DigitChars)) + 1])

RECURSIVE SkipWhiteSpace(_)
SkipWhiteSpace(raw) ==
  IF raw # << >> /\ Head(raw) = " " THEN SkipWhiteSpace(Tail(raw)) ELSE raw
RECURSIVE DigitPrefix(_)
DigitPrefix(raw) ==
  IF raw # << >> /\ Head(raw) \in Digits THEN << Head(raw) >> \o DigitPrefix(Tail(raw)) ELSE << >>
RECURSIVE DecimalValue(_)
DecimalValue(ds) ==
  IF ds = << >> THEN 0
  ELSE Len(DigitChars) * DecimalValue(SubSeq(ds, 1, Len(ds) - 1)) + DigitValue(ds[Len(ds)])

\* parseInt(raw, 10): leading white space is skipped, a sign is read, then
\* the longest run of decimal digits; whatever follows is ignored, and the
\* result is NaN when there is no digit.
parseInt(raw) ==
  LET t == SkipWhiteSpace(raw)
      signed == t # << >> /\ Head(t) \in { "+", "-" }
      ds == DigitPrefix(IF signed THEN Tail(t) ELSE t)
  IN IF ds = << >> THEN [nan |-> TRUE, value |-> 0]
     ELSE [nan |-> FALSE,
           value |-> IF signed /\ Head(t) = "-" THEN 0 - DecimalValue(ds) ELSE DecimalValue(ds)]

\* next.indexOf(rightIndex)
indexOf(conn, rightIndex) ==
  LET at == { i \in DOMAIN conn : conn[i] = rightIndex }
  IN IF at = {} THEN -1 ELSE LeastOf(at)

\* payloads of drags that did not start on an attribute of this panel
ForeignPayloads ==
  { << "a", "b", "c" >>, << "-", "1" >>, << "7" >>, << "1", "a", "b", "c" >>, << "1", "2" >> }

PanelInit ==
  /\ pc = "panel"
  /\ nodeCount \in 2..MaxNodeCount
  /\ connections = [i \in 0..(nodeCount - 1) |-> -1]
  /\ selectedLeft = -1
  /\ rightColors = << >>
  /\ onCompleteInvoked = FALSE
  /\ dragData = << >>
  /\ RasterIdle
  /\ DistIdle
  /\ MorphIdle
  /\ CompIdle
  /\ BlendIdle
  /\ GameIdle

\* a drag starts on attribute number index of the left column
handleDragStart ==
  /\ pc = "panel"
  /\ \E index \in 0..(nodeCount - 1) : dragData' = StringOf(index)
  /\ UNCHANGED << pc, nodeCount, connections, selectedLeft, rightColors, onCompleteInvoked >>
  /\ UNCHANGED << rasterVars, distVars, morphVars, compVars, blendVars, gameVars >>

\* a drag that starts elsewhere is carried over the panel
ForeignDragEnters ==
  /\ pc = "panel"
  /\ dragData' \in ForeignPayloads
  /\ UNCHANGED << pc, nodeCount, connections, selectedLeft, rightColors, onCompleteInvoked >>
  /\ UNCHANGED << rasterVars, distVars, morphVars, compVars, blendVars, gameVars >>

\* connections after a drop of payload raw on slot rightIndex
Dropped(conn, count, raw, rightIndex) ==
  IF raw = << >> THEN conn
  ELSE LET leftIndex == parseInt(raw)
       IN IF leftIndex.nan \/ leftIndex.value < 0 \/ leftIndex.value >= count THEN conn
          ELSE LET existing == indexOf(conn, rightIndex)
                   next == IF existing >= 0 THEN [conn EXCEPT ![existing] = -1] ELSE conn
               IN [next EXCEPT ![leftIndex.value] = rightIndex]

\* the drag is dropped on slot rightIndex of the right column and ends
handleDrop ==
  /\ pc = "panel"
  /\ \E rightIndex \in 0..(nodeCount - 1) :
       connections' = Dropped(connections, nodeCount, dragData, rightIndex)
  /\ dragData' = << >>
  /\ UNCHANGED << pc, nodeCount, selectedLeft, rightColors, onCompleteInvoked >>
  /\ UNCHANGED << rasterVars, distVars, morphVars, compVars, blendVars, gameVars >>

PanelNext == handleDragStart \/ ForeignDragEnters \/ handleDrop

PanelSpec == PanelInit /\ [][PanelNext]_vars

\* every entry is -1 or a slot index, and no slot is connected twice
PartialInjection ==
  /\ \A i \in DOMAIN connections : connections[i] \in -1..(nodeCount - 1)
  /\ \A i, j \in DOMAIN connections :
       (i # j /\ connections[i] = connections[j]) => connections[i] = -1
\* the payload is an optional sign followed by decimal digits and nothing else
IsNumber(raw) ==
  LET ds == IF raw # << >> /\ Head(raw) \in { "+", "-" } THEN Tail(raw) ELSE raw
  IN ds # << >> /\ \A k \in 1..Len(ds) : ds[k] \in Digits
\* the payload is empty, not a number, or a number outside [0, nodeCount)
BadPayload(raw) ==
  \/ raw = << >>
  \/ ~ IsNumber(raw)
  \/ parseInt(raw).value < 0
  \/ parseInt(raw).value >= nodeCount

====
